---- MODULE Spec2Model ----
(***************************************************************************)
(* Instance lifecycle and mount coordination of the prompt assistant       *)
(* (js/modules/PromptAssistant.js).  One action per handler; a handler's   *)
(* synchronous calls (cleanup, createAssistant, ...) are part of its       *)
(* action.  The only suspension points are the container lookup started by *)
(* _setupUIPosition and the retrying DOM scan started by _retryDomScan.    *)
(***************************************************************************)
EXTENDS Integers, Sequences, FiniteSets, TLC

(* ------------------------------ bounds --------------------------------- *)
\* widget objects createAssistant may allocate in one behaviour
MaxInst == 3
\* DOM elements (and containers) the host may render for one input
MaxGen == 2
\* _retryDomScan promises pending at once for one node
MaxRetryScans == 1
\* translate / expand operations started in one behaviour
MaxOps == 2
\* edits the user makes to input texts in one behaviour
MaxEdits == 1
\* times an input loses the focus in one behaviour
MaxBlurs == 1
\* changes the user makes to the settings in one behaviour
MaxSettingChanges == 1
\* the snapshots HistoryCacheService keeps per input before the oldest is evicted
MaxHistory == 2
\* edits and losses of focus in one behaviour of the undo / redo specification
MaxHistoryEdits == 3
MaxHistoryBlurs == 3
\* edits of the input in one behaviour of the text grid specification
MaxGridEdits == 2

(* ------------------------------ the host ------------------------------- *)
\* Node 1 is a standard node with two text widgets; node 2 is a Note
\* (markdown) node that exposes no widgets and is reached by the DOM scan;
\* node 3 is a standard node with two text widgets of the same name.
Nodes == {1, 2, 3}
NodeIdStr(n) == IF n = 1 THEN "1" ELSE IF n = 2 THEN "2" ELSE "3"
NodeHasWidgets(n) == n # 2
\* slot = one text input of a node; slots 1 and 2 are the widgets "text" and
\* "text_2" of node 1, slots 3 and 4 are the textareas node 2 renders, in
\* document order (the second one is rendered later than the first), slots
\* 5 and 6 are the two widgets "text" of node 3.
Slots == {1, 2, 3, 4, 5, 6}
SlotNode(s) == IF s >= 5 THEN 3 ELSE IF s >= 3 THEN 2 ELSE 1
\* an input name as the sequence of its "_"-separated parts
SlotInput(s) == IF s = 2 THEN <<"text", "2">> ELSE <<"text">>
ValidInputs(n) == IF n = 1 THEN <<1, 2>> ELSE IF n = 3 THEN <<5, 6>> ELSE <<>>
DomTextareas(n) == IF n = 2 THEN <<3, 4>> ELSE <<>>
\* `input_${index}` of the DOM scan
IndexStr(k) == IF k = 0 THEN "0" ELSE "1"

\* the host re-renders the textareas of slots 1..3; the late textarea of
\* node 2 is only added to and taken out of the document
GenOf(s) == IF s >= 4 THEN 1 ELSE MaxGen
Elements == {e \in Slots \X (1..MaxGen) : e[2] <= GenOf(e[1])}
NoEl == <<0, 0>>
NoCont == <<0, 0>>
Undef == <<>>
Null == <<>>

VARIABLES
    instances,   \* PromptAssistant.instances: key -> widget id (0: absent)
    widgets,     \* the widget objects created by createAssistant
    nextId,      \* next widget object to allocate
    elBound,     \* element._promptAssistantBound
    elMounted,   \* element._promptAssistantMounted
    elKey,       \* element._promptAssistantWidgetKey
    listeners,   \* DOM listeners / observers currently attached
    retryScans,  \* pending _retryDomScan promises per node
    enabled,     \* window.FEATURES.enabled
    nodeInit,    \* node._promptAssistantInitialized
    switching,   \* window.PROMPT_ASSISTANT_WORKFLOW_SWITCHING
    vueMode,     \* LiteGraph.vueNodesMode
    rendered,    \* the slot's DOM is attached to the document
    curEl,       \* generation of the slot's current textarea
    curCont,     \* generation of the slot's current widget container
    elParent,    \* container generation an element was rendered into
    selHandler,  \* app.canvas: onSelectionChange (Null, a handler of the host,
                 \* or the assistant's _promptAssistantSelectionHandler) and
                 \* _originalSelectionChange
    graphNodes,  \* app.graph._nodes: the nodes of the loaded workflow
    store,       \* the texts kept outside the instances, as one record:
                 \*   history        HistoryCacheService: the recorded entries
                 \*   undoState      HistoryCacheService: the snapshots of an
                 \*                  input in order, and the undo cursor
                 \*   tagCache       TagCacheService: (node, input) pairs with tags
                 \*   translateCache TranslateCacheService: (source, translated)
                 \*   value          element.value of the textareas
    run          \* the translate / expand operations, as one record:
                 \*   ops       the operations started so far
                 \*   nextOp    next operation to start
                 \*   activeOp  the operation a widget's toolbar is processing
                 \*   features  FEATURES.useTranslateCache,
                 \*             cacheMixedLangTranslation, enableStreaming

progVars == <<instances, widgets, nextId, elBound, elMounted, elKey,
              listeners, retryScans, enabled, store, run>>
domVars == <<vueMode, rendered, curEl, curCont, elParent, graphNodes>>
hostVars == <<nodeInit, switching, vueMode, rendered, curEl, curCont, elParent,
              selHandler, graphNodes>>
vars == <<instances, widgets, nextId, elBound, elMounted, elKey, listeners,
          retryScans, enabled, nodeInit, switching, vueMode, rendered, curEl,
          curCont, elParent, selHandler, graphNodes, store, run>>

(* ------------------------------ DOM queries ---------------------------- *)
ElInDoc(e) == e # NoEl /\ rendered[e[1]] /\ curEl[e[1]] = e[2]
ContInDoc(c) == c # NoCont /\ rendered[c[1]] /\ curCont[c[1]] = c[2]
ParentOf(e) == <<e[1], elParent[e]>>
CurrentEl(s) == <<s, curEl[s]>>

\* inputWidget.inputEl of a LiteGraph widget: the widget's own element in
\* the legacy renderer, absent under the Vue renderer
WidgetInputEl(s) == IF vueMode THEN NoEl ELSE CurrentEl(s)

(* ------------------------------ keys ----------------------------------- *)
GraphId(n) == "main"
AssistantKey(n, inputId) == <<GraphId(n), NodeIdStr(n)>> \o inputId
SlotKey(s) == AssistantKey(SlotNode(s), SlotInput(s))
Keys == {SlotKey(1), SlotKey(2)} \cup
        {AssistantKey(2, id) : id \in {<<"text">>, <<"input", "0">>, <<"input", "1">>}}

IsPrefix(p, q) == Len(p) <= Len(q) /\ SubSeq(q, 1, Len(p)) = p
\* key.startsWith(`${searchId}_`)
StartsWithSep(key, searchId) == Len(searchId) < Len(key) /\ IsPrefix(searchId, key)

(* ------------------------------ texts ---------------------------------- *)
\* A text is a sequence of tokens: "u" English words, "z" Chinese words, "w"
\* white space, and the chunks a provider streams for an operation.
ChunkTok(o, k) ==
    IF o = 1 THEN (IF k = 1 THEN "a1" ELSE "a2")
    ELSE IF o = 2 THEN (IF k = 1 THEN "b1" ELSE "b2")
    ELSE (IF k = 1 THEN "c1" ELSE "c2")
\* the texts a user leaves in an input
UserTexts == {<<"w">>, <<"u">>, <<"z", "u">>}
\* the complete answer of the provider to operation o
FullAnswer(o) == <<ChunkTok(o, 1), ChunkTok(o, 2)>>
\* text.trim() === ''
IsBlank(t) == \A k \in DOMAIN t : t[k] = "w"
\* the inputs history and undo state are kept for: (node_id, input_id)
HistoryKeys == {<<NodeIdStr(SlotNode(s1)), SlotInput(s1)>> : s1 \in Slots} \cup
               {<<"2", id>> : id \in {<<"input", "0">>, <<"input", "1">>}}
HistoryEntry(node, input, content, type) ==
    [node |-> node, input |-> input, content |-> content, type |-> type]
\* an operation: the closure of one run of a work function
NoOp ==
    [inst |-> 0, feature |-> "none", phase |-> "none", content |-> <<>>,
     stream |-> <<>>, streaming |-> FALSE, cancelled |-> FALSE]

\* nothing recorded, nothing cached, empty inputs
EmptyStore ==
    [history |-> {},
     undoState |-> [hk \in HistoryKeys |-> [stack |-> <<>>, cursor |-> 0]],
     tagCache |-> {},
     translateCache |-> {}, value |-> [e \in Elements |-> <<>>]]
\* the undo state of an input with no snapshot: nothing to undo or redo
NoUndo == [stack |-> <<>>, cursor |-> 0]
\* the default values of the settings PromptAssistant.Features.*
DefaultFeatures ==
    [useTranslateCache |-> TRUE, cacheMixedLangTranslation |-> FALSE,
     enableStreaming |-> TRUE]
\* no text grid: neither the popup (currentPopup) nor an inline grid exists.
\* items is the sequence of .text_grid_item children of the grid container,
\* each with its dataset.textValue and dataset.disabled; timer is the pending
\* debounce timer of onInput, skip is widget._skipNextGridRenderFromInput and
\* listening says that onInput is attached and inputListenerRemoved is false.
NoGrid ==
    [kind |-> "none", inst |-> 0, items |-> <<>>, timer |-> FALSE,
     skip |-> FALSE, listening |-> FALSE]
\* no operation started
IdleRun ==
    [ops |-> [o \in 1..MaxOps |-> NoOp], nextOp |-> 1,
     activeOp |-> [i \in 1..MaxInst |-> 0], features |-> DefaultFeatures,
     edits |-> 0, blurs |-> 0, changes |-> 0, grid |-> NoGrid]

(* ------------------------------ widget objects ------------------------- *)
\* A widget object.  slot, lookupEl, toolbar and lookup are what the
\* closures of createAssistantUI/_setupUIPosition hold (node, widgetObj,
\* containerDiv, the pending promise); the other fields are the object's
\* own properties ("undefined"/Undef/NoEl/FALSE once deleted).  text_element
\* is always assigned together with inputEl and is folded into it.
\* outcome records how the mount attempt ended.
NoWidget ==
    [slot |-> 0, key |-> Undef, inputId |-> Undef, inputEl |-> NoEl, lookupEl |-> NoEl,
     toolbar |-> NoCont, element |-> FALSE, isDestroyed |-> "undefined",
     isMounting |-> FALSE, inputEventsBound |-> FALSE, undoInit |-> FALSE,
     cleanups |-> <<>>, lookup |-> "none", outcome |-> "none"]

Fn(kind, el) == [kind |-> kind, el |-> el]
Listener(el, kind, owner) == [el |-> el, kind |-> kind, owner |-> owner]

\* the program state the handlers read and write, as one record
State ==
    [instances |-> instances, widgets |-> widgets, nextId |-> nextId,
     elBound |-> elBound, elMounted |-> elMounted, elKey |-> elKey,
     listeners |-> listeners, retryScans |-> retryScans, enabled |-> enabled,
     store |-> store, run |-> run, ok |-> TRUE, thrown |-> FALSE]

Allocated(P) == 1..(P.nextId - 1)
\* a registry lookup that never finds the key
hasInstanceNever(P, key) == FALSE
hasInstance(P, key) == P.instances[key] # 0
getInstance(P, key) == P.instances[key]
\* addInstance(nodeId, widget): Map.set, whatever the key held before
addInstance(P, key, i) == [P EXCEPT !.instances[key] = i]

\* isUIPresent of checkAndSetupNode/_mountDomAssistant: the toolbar root is
\* inside a container that is in the document
IsUIPresent(P, i) == ContInDoc(P.widgets[i].toolbar)

\* container.querySelector('.assistant-container-common')
ExistingAssistant(P, c) == \E j \in Allocated(P) : P.widgets[j].toolbar = c

(* ------------------------------ _cleanupInstance ----------------------- *)
\* a loop that a throwing cleanup function ends
InvokedCleanupsStopAtThrow(fs, menuThrows) == IF menuThrows THEN <<>> ELSE fs

\* the cleanup functions the forEach of step 3 invokes: each call is wrapped
\* in its own try/catch, so a throwing one does not stop the loop
InvokedCleanups(fs, menuThrows) == fs

\* what running the invoked functions removes from the DOM
RemovedListeners(inv, i) ==
    {Listener(inv[k].el, inv[k].kind, i) : k \in {k \in DOMAIN inv : inv[k].kind # "menu"}}

\* step 8: Object.keys(instance).forEach(key => delete instance[key])
DeleteOwnProperties(w) ==
    [w EXCEPT !.key = Undef, !.inputId = Undef, !.inputEl = NoEl, !.element = FALSE,
              !.isDestroyed = "undefined", !.isMounting = FALSE,
              !.inputEventsBound = FALSE, !.undoInit = FALSE, !.cleanups = <<>>]

CleanupInstance(P, i, instanceKey, skipRemove, menuThrows) ==
    IF i = 0 THEN P
    ELSE
    LET w == P.widgets[i]
        inv == InvokedCleanups(w.cleanups, menuThrows)
        e == w.inputEl
        w1 == [w EXCEPT !.isDestroyed = "true", !.cleanups = <<>>,
                        !.undoInit = FALSE, !.inputEventsBound = FALSE,
                        !.toolbar = NoCont]
    IN [P EXCEPT
          !.listeners = @ \ RemovedListeners(inv, i),
          !.elBound = IF e # NoEl THEN [@ EXCEPT ![e] = FALSE] ELSE @,
          !.elMounted = IF e # NoEl THEN [@ EXCEPT ![e] = FALSE] ELSE @,
          !.elKey = IF e # NoEl /\ P.elMounted[e] THEN [@ EXCEPT ![e] = Undef] ELSE @,
          !.instances = IF ~skipRemove /\ instanceKey # Undef
                        THEN [@ EXCEPT ![instanceKey] = 0] ELSE @,
          !.widgets = [@ EXCEPT ![i] = DeleteOwnProperties(w1)]]

(* ------------------------------ cleanup -------------------------------- *)
\* the filter of the workflow-switching branch
SwitchingMatch(key, x) == x = Null \/ StartsWithSep(key, x)
\* the filter of the per-node branch
NodeMatch(key, x) ==
    \/ key = x
    \/ StartsWithSep(key, x)
    \/ (Len(key) >= 2 /\ Len(x) = 1 /\ key[2] = x[1])

RECURSIVE CleanupKeys(_, _, _, _)
CleanupKeys(P, ks, skipRemove, menuThrows) ==
    IF ks = {} THEN P
    ELSE LET k == CHOOSE k \in ks : TRUE
             P1 == CleanupInstance(P, getInstance(P, k), k, skipRemove, menuThrows)
             P2 == IF skipRemove /\ getInstance(P, k) # 0
                   THEN [P1 EXCEPT !.instances[k] = 0] ELSE P1
         IN CleanupKeys(P2, ks \ {k}, skipRemove, menuThrows)

Registered(P) == {k \in Keys : hasInstance(P, k)}

\* HistoryCacheService.clearNodeHistory(nodeId): the entries whose node_id
\* is the argument; x is what cleanup was called with
ClearNodeHistory(P, x) ==
    [P EXCEPT !.store.history = {h \in @ : <<h.node>> # x},
              !.store.undoState = [hk \in DOMAIN @ |-> IF <<hk[1]>> = x THEN NoUndo ELSE @[hk]]]

\* TagCacheService.clearCache(nodeId, instance.inputId) for the matched keys
ClearTagCaches(P, x, ks) ==
    [P EXCEPT !.store.tagCache =
        {tc \in @ : ~(<<tc[1]>> = x /\ \E k \in ks : tc[2] = P.widgets[getInstance(P, k)].inputId)}]

\* a summary block that puts the history it reports back into the store
LogSummaryKeepsHistory(P0, P) == [P EXCEPT !.store.history = P0.store.history]

\* the block under `if (!silent)`: reads getTagStats / getAllHistory and
\* writes the summary with logger.log; P0 is the state cleanup started in
LogSummary(P0, P) == P

\* a cleanup that clears the caches of the torn-down instances also while
\* a workflow switch is in progress
CleanupClearsWhileSwitching(P, x, silent, menuThrows) ==
    LET ks == {k \in Registered(P) : x = Null \/ NodeMatch(k, x)}
    IN CleanupKeys([P EXCEPT !.store.history = {},
                             !.store.undoState = [hk \in DOMAIN @ |-> NoUndo],
                             !.store.tagCache = {}],
                   ks, TRUE, menuThrows)

\* cleanup(nodeId, silent); x is Null, a node id or a full key as its
\* "_"-separated parts
Cleanup(P, x, silent, menuThrows) ==
    IF switching
    THEN CleanupKeys(P, {k \in Registered(P) : SwitchingMatch(k, x)}, FALSE, menuThrows)
    ELSE IF x # Null
    THEN LET ks == {k \in Registered(P) : NodeMatch(k, x)}
             P1 == CleanupKeys(ClearTagCaches(ClearNodeHistory(P, x), x, ks), ks, TRUE, menuThrows)
         IN IF ks = {} THEN P
            ELSE IF ~silent THEN LogSummary(P, P1) ELSE P1
    ELSE LET P1 == CleanupKeys([P EXCEPT !.store.history = {},
                                         !.store.undoState = [hk \in DOMAIN @ |-> NoUndo],
                                         !.store.tagCache = {}],
                               Registered(P), TRUE, menuThrows)
         IN IF Registered(P) = {} THEN P
            ELSE IF ~silent THEN LogSummary(P, P1) ELSE P1

(* ------------------------------ history and input text ----------------- *)
\* widget.nodeId and widget.inputId as a work function reads them: own
\* properties of the widget, undefined once _cleanupInstance deleted them
WidgetNodeId(P, i) ==
    IF P.widgets[i].inputId = Undef THEN "undefined"
    ELSE NodeIdStr(SlotNode(P.widgets[i].slot))
WidgetInputId(P, i) ==
    IF P.widgets[i].inputId = Undef THEN <<"undefined">> ELSE P.widgets[i].inputId

\* the snapshots of one input after `content` is recorded: nothing is
\* appended when the latest snapshot is that text already, and the oldest
\* snapshot is evicted when the sequence is full
PushSnapshot(u, content) ==
    IF u.stack # <<>> /\ u.stack[Len(u.stack)] = content THEN u
    ELSE IF Len(u.stack) < MaxHistory
         THEN [u EXCEPT !.stack = Append(@, content)]
         ELSE [stack |-> Append(Tail(u.stack), content),
               cursor |-> IF u.cursor > 1 THEN u.cursor - 1 ELSE u.cursor]

\* HistoryCacheService.addHistory(entry)
AddHistory(P, node, input, content, type) ==
    LET P1 == [P EXCEPT !.store.history =
                             @ \cup {HistoryEntry(node, input, content, type)}]
    IN  IF <<node, input>> \in HistoryKeys
        THEN [P1 EXCEPT !.store.undoState[<<node, input>>] = PushSnapshot(@, content)]
        ELSE P1

\* HistoryCacheService.initUndoState(nodeId, inputId, content): the undo
\* cursor is reset to the latest snapshot
InitUndoState(P, node, input, content) ==
    IF <<node, input>> \in HistoryKeys
    THEN [P EXCEPT !.store.undoState[<<node, input>>] =
                       [stack |-> @.stack, cursor |-> Len(@.stack)]]
    ELSE P

\* HistoryCacheService.addHistoryAndUpdateUndoState(nodeId, inputId, content, type)
AddHistoryAndUpdateUndoState(P, node, input, content, type) ==
    InitUndoState(AddHistory(P, node, input, content, type), node, input, content)

\* getInputValue(widget)
GetInputValue(P, i) ==
    IF P.widgets[i].inputEl = NoEl THEN <<>> ELSE P.store.value[P.widgets[i].inputEl]

\* setInputValue(widget, content, options) / updateInputWithHighlight
SetInputValue(P, i, content) ==
    IF P.widgets[i].inputEl = NoEl THEN P
    ELSE [P EXCEPT !.store.value[P.widgets[i].inputEl] = content]

\* the blur listener bound by _initializeInputElBindings and by the
\* positioning functions: node and inputId are the closure's values
BlurKey(P, l) ==
    LET i == l.owner
    IN <<NodeIdStr(SlotNode(P.widgets[i].slot)),
         IF NodeHasWidgets(SlotNode(P.widgets[i].slot))
         THEN SlotInput(P.widgets[i].slot) ELSE WidgetInputId(P, i)>>
BlurListener(P, l) ==
    LET node == BlurKey(P, l)[1]
        input == BlurKey(P, l)[2]
        content == P.store.value[l.el]
    IN InitUndoState(AddHistory(P, node, input, content, "input"), node, input, content)

(* ------------------------------ bindings ------------------------------- *)
\* the undo state of a widget is initialised once; a non-empty initial text
\* is recorded in the history
\* _initializeInputElBindings: the guard is the widget-level flag
\* _inputEventsBound; the element's _promptAssistantBound is only written
InitializeUndoState(P, i, inputEl) ==
    LET node == NodeIdStr(SlotNode(P.widgets[i].slot))
        input == P.widgets[i].inputId
        initialValue == P.store.value[inputEl]
    IN IF P.widgets[i].undoInit THEN P
       ELSE IF ~IsBlank(initialValue)
       THEN AddHistoryAndUpdateUndoState(P, node, input, initialValue, "input")
       ELSE InitUndoState(P, node, input, initialValue)

InitializeInputElBindings(P0, i, inputEl) ==
    LET P == IF inputEl = NoEl THEN P0 ELSE InitializeUndoState(P0, i, inputEl)
    IN
    IF inputEl = NoEl THEN P
    ELSE IF P.widgets[i].inputEventsBound
    THEN [P EXCEPT !.widgets[i].undoInit = TRUE]
    ELSE [P EXCEPT
            !.elBound[inputEl] = TRUE,
            !.widgets[i].undoInit = TRUE,
            !.widgets[i].inputEventsBound = TRUE,
            !.widgets[i].cleanups = @ \o <<Fn("blur", inputEl), Fn("input", inputEl),
                                           Fn("resize", inputEl)>>,
            !.listeners = @ \cup {Listener(inputEl, "blur", i),
                                  Listener(inputEl, "input", i),
                                  Listener(inputEl, "resize", i)}]

(* ------------------------------ createAssistant ------------------------ *)
\* createAssistant with createAssistantUI's synchronous part: the widget is
\* built with _isMounting set, the container lookup is started, the widget
\* is registered and, when the widget has an element, its events are bound.
\* ok = FALSE marks a run that needs more widget objects than MaxInst.
CreateAssistant(P, s, inputEl, key) ==
    IF ~P.enabled THEN P
    ELSE IF inputEl = NoEl /\ ~vueMode THEN P
    ELSE IF hasInstance(P, key) THEN P
    ELSE IF P.nextId > MaxInst THEN [P EXCEPT !.ok = FALSE]
    ELSE
    LET i == P.nextId
        w == [NoWidget EXCEPT !.slot = s, !.key = key, !.inputEl = inputEl,
                              !.inputId = SubSeq(key, 3, Len(key)),
                              !.lookupEl = inputEl, !.element = TRUE,
                              !.isDestroyed = "false", !.isMounting = TRUE,
                              !.cleanups = <<Fn("menu", NoEl)>>,
                              !.lookup = "pending"]
        P1 == addInstance([P EXCEPT !.widgets[i] = w, !.nextId = i + 1], key, i)
    IN InitializeInputElBindings(P1, i, inputEl)

\* a setup that registers the instance under the key of the node's other input
SetupNodeAssistantOtherKey(P, s, key) ==
    CreateAssistant(P, s, WidgetInputEl(s), SlotKey(3 - s))
\* setupNodeAssistant: createAssistant on the widget's element
SetupNodeAssistant(P, s, key) == CreateAssistant(P, s, WidgetInputEl(s), key)

(* ------------------------------ positioning ---------------------------- *)
\* an abort that leaves the candidate in the registry
CleanupRedundantWidgetKeepsEntry(P, i) ==
    [P EXCEPT !.widgets[i].toolbar = IF P.widgets[i].element THEN NoCont ELSE @,
              !.widgets[i].outcome = "aborted"]

\* _cleanupRedundantWidget, and the same two statements inlined in
\* _applyLitegraphPositioning
CleanupRedundantWidget(P, i) ==
    LET w == P.widgets[i]
    IN [P EXCEPT
          !.instances = IF w.key # Undef /\ hasInstance(P, w.key)
                        THEN [@ EXCEPT ![w.key] = 0] ELSE @,
          !.widgets[i].toolbar = IF w.element THEN NoCont ELSE @,
          !.widgets[i].outcome = "aborted"]

Attach(P, i, el, c) ==
    [P EXCEPT !.elMounted[el] = TRUE,
              !.elKey[el] = P.widgets[i].key,
              !.widgets[i].toolbar = c,
              !.widgets[i].outcome = "mounted"]

\* the positioning functions initialise the undo state of a widget that has
\* none when they bind the listeners
PositioningUndoState(P, i, el) ==
    IF P.widgets[i].undoInit THEN P
    ELSE InitUndoState(P, WidgetNodeId(P, i), WidgetInputId(P, i), P.store.value[el])

ApplyVueNodesPositioning(P, i, textarea, container) ==
    LET w == P.widgets[i]
        P1 == IF textarea # w.inputEl
              THEN IF ~P.elBound[textarea]
                   THEN [PositioningUndoState(P, i, textarea) EXCEPT
                           !.widgets[i].inputEl = textarea,
                           !.elBound[textarea] = TRUE,
                           !.widgets[i].cleanups = @ \o <<Fn("blur", textarea),
                                                          Fn("input", textarea),
                                                          Fn("resize", textarea)>>,
                           !.listeners = @ \cup {Listener(textarea, "blur", i),
                                                 Listener(textarea, "input", i),
                                                 Listener(textarea, "resize", i)},
                           !.widgets[i].undoInit = TRUE]
                   ELSE [P EXCEPT !.widgets[i].inputEl = textarea]
              ELSE P
    IN IF P1.elMounted[textarea] /\ P1.elKey[textarea] # w.key
       THEN CleanupRedundantWidget(P1, i)
       ELSE IF ExistingAssistant(P1, container) /\ w.toolbar # container
       THEN CleanupRedundantWidget(P1, i)
       ELSE Attach(P1, i, textarea, container)

ApplyLitegraphPositioning(P, i, textarea, container) ==
    LET w == P.widgets[i]
        P1 == IF textarea # w.inputEl
              THEN [P EXCEPT !.widgets[i].inputEl = textarea] ELSE P
        inputEl == P1.widgets[i].inputEl
        P2 == IF ~w.inputEventsBound
              THEN [PositioningUndoState(P1, i, inputEl) EXCEPT
                      !.elBound[inputEl] = TRUE,
                      !.widgets[i].inputEventsBound = TRUE,
                      !.widgets[i].cleanups = @ \o <<Fn("blur", inputEl),
                                                     Fn("input", inputEl)>>,
                      !.listeners = @ \cup {Listener(inputEl, "blur", i),
                                            Listener(inputEl, "input", i)},
                      !.widgets[i].undoInit = TRUE]
              ELSE P1
    IN IF P2.elMounted[inputEl]
       THEN CleanupRedundantWidget(P2, i)
       ELSE IF ExistingAssistant(P2, container)
       THEN CleanupRedundantWidget(P2, i)
       ELSE Attach(P2, i, inputEl, container)

\* a failure callback that leaves the registry entry in place
OnCompleteKeepsEntry(P, i, success) ==
    LET w == P.widgets[i]
    IN IF w.isDestroyed = "true" THEN P
       ELSE IF ~success
       THEN [P EXCEPT !.widgets[i].toolbar = NoCont, !.widgets[i].outcome = "failed"]
       ELSE [P EXCEPT !.widgets[i].isMounting = FALSE]

\* the onComplete callback createAssistantUI passes to _setupUIPosition;
\* widget.isDestroyed is read as a JavaScript truth value
OnComplete(P, i, success) ==
    LET w == P.widgets[i]
    IN IF w.isDestroyed = "true" THEN P
       ELSE IF ~success
       THEN [P EXCEPT
               !.widgets[i].toolbar = NoCont,
               !.widgets[i].outcome = "failed",
               !.instances = IF w.key # Undef /\ hasInstance(P, w.key)
                             THEN [@ EXCEPT ![w.key] = 0] ELSE @]
       ELSE [P EXCEPT !.widgets[i].isMounting = FALSE]

\* NodeMountService.findMountContainerWithRetry as it resolves: the legacy
\* renderer uses the widget's own element, the Vue renderer queries the
\* node's DOM for the input; NoEl when the retries are exhausted
FoundTextarea(P, i) ==
    LET w == P.widgets[i]
    IN IF vueMode
       THEN IF rendered[w.slot] THEN CurrentEl(w.slot) ELSE NoEl
       ELSE IF ElInDoc(w.lookupEl) THEN w.lookupEl ELSE NoEl

\* the then-callback of _setupUIPosition for a lookup that found textarea
PositionApplied(P, i, textarea) ==
    OnComplete(IF vueMode
               THEN ApplyVueNodesPositioning(P, i, textarea, ParentOf(textarea))
               ELSE ApplyLitegraphPositioning(P, i, textarea, ParentOf(textarea)),
               i, TRUE)

\* the then-callback of _setupUIPosition
PositionResolved(P, i) ==
    LET textarea == FoundTextarea(P, i)
        P0 == [P EXCEPT !.widgets[i].lookup = "done"]
    IN IF textarea = NoEl
       THEN OnComplete(P0, i, FALSE)
       ELSE PositionApplied(P0, i, textarea)

(* ------------------------------ scans ---------------------------------- *)
\* _mountDomAssistant(node, element, inputId, index); s is the textarea's
\* place in the node's DOM
MountDomAssistant(P, s, element, inputId, menuThrows) ==
    LET key == AssistantKey(SlotNode(s), inputId)
        i == getInstance(P, key)
        returned == hasInstance(P, key) /\ P.widgets[i].element /\ IsUIPresent(P, i)
        P1 == IF hasInstance(P, key)
              THEN Cleanup(P, <<NodeIdStr(SlotNode(s))>>, FALSE, menuThrows)
              ELSE P
    IN IF returned THEN P
       ELSE IF P1.elMounted[element] THEN P1
       ELSE CreateAssistant(P1, s, element, key)

\* _retryDomScan: one more pending promise for the node
RetryDomScan(P, n) ==
    IF P.retryScans[n] >= MaxRetryScans THEN [P EXCEPT !.ok = FALSE]
    ELSE [P EXCEPT !.retryScans[n] = @ + 1]

\* the textareas querySelectorAll finds under the node's container
RenderedTextareas(n) == SelectSeq(DomTextareas(n), LAMBDA s : rendered[s])

\* textareas.forEach((el, index) => ...) from position k on
RECURSIVE MountTextareas(_, _, _, _)
MountTextareas(P, ts, k, menuThrows) ==
    IF k > Len(ts) THEN P
    ELSE LET inputId == IF Len(ts) = 1 THEN <<"text">> ELSE <<"input", IndexStr(k - 1)>>
         IN MountTextareas(MountDomAssistant(P, ts[k], CurrentEl(ts[k]), inputId, menuThrows),
                           ts, k + 1, menuThrows)

\* _isMarkdownNode(node) || _isSubgraphNode(node)
IsDomScanNode(n) == ~NodeHasWidgets(n)

\* _handleVueDomScanNode(node); the node container is in the document when
\* the node's textareas are rendered
HandleVueDomScanNode(P, n, menuThrows) ==
    IF ~IsDomScanNode(n) THEN P
    ELSE IF RenderedTextareas(n) = <<>>
    THEN RetryDomScan(P, n)
    ELSE MountTextareas(P, RenderedTextareas(n), 1, menuThrows)

\* a scan that takes the element's bound flag for the mount marker
SetupInputBoundBlocks(P, s, menuThrows) ==
    LET key == SlotKey(s)
        currentInputEl == WidgetInputEl(s)
    IN IF hasInstance(P, key) THEN P
       ELSE IF currentInputEl # NoEl /\ P.elBound[currentInputEl] THEN P
       ELSE SetupNodeAssistant(P, s, key)

\* validInputs.filter(w => (w.name || w.id) === inputId)
SameNameWidgets(s) ==
    SelectSeq(ValidInputs(SlotNode(s)), LAMBDA s2 : SlotInput(s2) = SlotInput(s))

\* the exception leaves the function: nothing after the throw is executed
Throw(P) == [P EXCEPT !.thrown = TRUE]

\* the same-name branch of the forEach body: both the unique id written to
\* the element's dataset and the index fallback are built from `graphId`,
\* an identifier that checkAndSetupNode does not declare, so evaluating
\* either template throws a ReferenceError
SameNameKey(P, s) == Throw(P)

\* the body of the validInputs.forEach of checkAndSetupNode for one widget
SetupInput(P, s, menuThrows) ==
    IF Len(SameNameWidgets(s)) > 1 THEN SameNameKey(P, s) ELSE
    LET key == SlotKey(s)
        i == getInstance(P, key)
        w == P.widgets[i]
        currentInputEl == WidgetInputEl(s)
        present == IsUIPresent(P, i)
        lost == ~w.element \/ (~present /\ ~w.isMounting)
        replaced == w.inputEl # NoEl /\ currentInputEl # NoEl /\ w.inputEl # currentInputEl
        skip == /\ hasInstance(P, key)
                /\ ~lost
                /\ \/ ~present /\ w.isMounting
                   \/ ~replaced
                   \/ ElInDoc(w.inputEl)
        P1 == IF ~hasInstance(P, key) THEN P
              ELSE IF lost THEN Cleanup(P, key, FALSE, menuThrows)
              ELSE Cleanup(P, <<NodeIdStr(SlotNode(s))>>, FALSE, menuThrows)
    IN IF skip THEN P
       ELSE IF ~P1.enabled THEN P1
       ELSE IF currentInputEl # NoEl /\ P1.elMounted[currentInputEl] THEN P1
       ELSE SetupNodeAssistant(P1, s, key)

RECURSIVE SetupInputs(_, _, _)
SetupInputs(P, ss, menuThrows) ==
    IF ss = <<>> \/ P.thrown THEN P
    ELSE SetupInputs(SetupInput(P, Head(ss), menuThrows), Tail(ss), menuThrows)

\* checkAndSetupNode(node)
CheckAndSetupNode(P, n, menuThrows) ==
    IF ~P.enabled THEN P
    ELSE IF ~NodeHasWidgets(n)
    THEN IF vueMode THEN HandleVueDomScanNode(P, n, menuThrows) ELSE P
    ELSE IF ValidInputs(n) = <<>>
    THEN IF vueMode THEN HandleVueDomScanNode(P, n, menuThrows) ELSE P
    ELSE SetupInputs(P, ValidInputs(n), menuThrows)

(* ------------------------------ translate cache ------------------------ *)
\* PromptFormatter.isMixedChineseEnglish(text)
IsMixedChineseEnglish(t) ==
    (\E k \in DOMAIN t : t[k] = "z") /\ (\E k \in DOMAIN t : t[k] = "u")

\* PromptFormatter.formatTranslatedText(text): surrounding white space removed
RECURSIVE FormatTranslatedText(_)
FormatTranslatedText(t) ==
    IF t = <<>> THEN t
    ELSE IF Head(t) = "w" THEN FormatTranslatedText(Tail(t))
    ELSE IF t[Len(t)] = "w" THEN FormatTranslatedText(SubSeq(t, 1, Len(t) - 1))
    ELSE t

NoHit == [type |-> "none", text |-> <<>>]
\* TranslateCacheService.queryTranslateCache(text): an exact match on a
\* source text gives the translation, on a translation gives the source
QueryTranslateCache(P, t) ==
    IF \E c \in P.store.translateCache : c[1] = t
    THEN [type |-> "source",
          text |-> (CHOOSE c \in P.store.translateCache : c[1] = t)[2]]
    ELSE IF \E c \in P.store.translateCache : c[2] = t
    THEN [type |-> "translated",
          text |-> (CHOOSE c \in P.store.translateCache : c[2] = t)[1]]
    ELSE NoHit

\* TranslateCacheService.addTranslateCache(source, translated): the entry
\* of the source text is set, an older translation of it is replaced
AddTranslateCache(P, source, translated) ==
    [P EXCEPT !.store.translateCache =
        {c \in @ : c[1] # source} \cup {<<source, translated>>}]

\* a translate work function that never caches its result
WriteTranslateCacheNever(P, content, formatted) == P

\* a write that ignores the mixed-language setting
WriteTranslateCacheAlways(P, content, formatted) ==
    IF P.run.features.useTranslateCache
    THEN AddTranslateCache(P, content, formatted) ELSE P

\* the cache write at the end of a provider-served translation
WriteTranslateCache(P, content, formatted) ==
    IF P.run.features.useTranslateCache
    THEN IF ~IsMixedChineseEnglish(content) \/ P.run.features.cacheMixedLangTranslation
         THEN AddTranslateCache(P, content, formatted) ELSE P
    ELSE P

(* ------------------------------ operations ----------------------------- *)
\* UIToolkit.handleAsyncButtonOperation, when the work function returns or
\* throws: the toolbar leaves the processing state
FinishOperation(P, o) ==
    LET i == P.run.ops[o].inst
    IN [P EXCEPT !.run.ops[o] = NoOp,
                 !.run.activeOp[i] = IF @ = o THEN 0 ELSE @]

\* a successful result: input updated, history entry, undo state reset
ApplyResult(P, o, content, type) ==
    LET i == P.run.ops[o].inst
        P1 == SetInputValue(P, i, content)
        P2 == AddHistory(P1, WidgetNodeId(P, i), WidgetInputId(P, i), content, type)
    IN InitUndoState(P2, WidgetNodeId(P, i), WidgetInputId(P, i), content)

\* the provider call of operation o is issued
IssueCall(P, o, content, streaming) ==
    [P EXCEPT !.run.ops[o].phase = "calling",
              !.run.ops[o].content = content,
              !.run.ops[o].streaming = streaming]

\* the expand work function up to its await
ExpandWork(P, o) ==
    LET inputValue == GetInputValue(P, P.run.ops[o].inst)
    IN IF IsBlank(inputValue) THEN FinishOperation(P, o)
       ELSE IssueCall(P, o, inputValue, P.run.features.enableStreaming)

\* a translate work function that does not consult the cache
TranslateWorkNoCache(P, o, llm) ==
    LET inputValue == GetInputValue(P, P.run.ops[o].inst)
    IN IF IsBlank(inputValue) THEN FinishOperation(P, o)
       ELSE IssueCall(P, o, inputValue, llm /\ P.run.features.enableStreaming)

\* the translate work function up to the provider call; llm is the
\* provider kind /config/translate answers with (LLM, or Google / Baidu).
\* The fetch of the configuration and the provider call are one awaited
\* call: a failing fetch is a rejected call
TranslateWork(P, o, llm) ==
    LET inputValue == GetInputValue(P, P.run.ops[o].inst)
        cacheResult == IF P.run.features.useTranslateCache
                       THEN QueryTranslateCache(P, inputValue) ELSE NoHit
    IN IF IsBlank(inputValue) THEN FinishOperation(P, o)
       ELSE IF cacheResult.type # "none"
       THEN FinishOperation(ApplyResult(P, o, cacheResult.text, "translate"), o)
       ELSE IssueCall(P, o, inputValue, llm /\ P.run.features.enableStreaming)

\* the stream callback of both work functions
StreamCallback(P, o, chunk) ==
    LET streamContent == P.run.ops[o].stream \o <<chunk>>
    IN SetInputValue([P EXCEPT !.run.ops[o].stream = streamContent],
                     P.run.ops[o].inst, streamContent)

\* the expand work function after its await; data is result.data.expanded
ExpandResolved(P, o, success, data) ==
    LET streamContent == P.run.ops[o].stream
        finalContent == IF streamContent # <<>> THEN streamContent ELSE data
    IN IF success /\ finalContent # <<>>
       THEN FinishOperation(ApplyResult(P, o, finalContent, "expand"), o)
       ELSE FinishOperation(P, o)

\* the translate work function after its await; data is
\* result.data.translated
TranslateResolved(P, o, success, data) ==
    LET streamContent == P.run.ops[o].stream
        rawTranslated == IF streamContent # <<>> THEN streamContent ELSE data
        formattedText == FormatTranslatedText(rawTranslated)
        P1 == ApplyResult(P, o, formattedText, "translate")
    IN IF success
       THEN FinishOperation(WriteTranslateCache(P1, P.run.ops[o].content, formattedText), o)
       ELSE FinishOperation(P, o)

\* the awaited call rejects, or resolves with no result
WorkRejected(P, o) == FinishOperation(P, o)

\* the cancel logic of UIToolkit: the running operation's token is
\* invalidated and the toolbar leaves the processing state
CancelOperation(P, i) ==
    LET a == P.run.activeOp[i]
    IN IF a = 0 THEN P
       ELSE [P EXCEPT !.run.ops[a].cancelled = TRUE, !.run.activeOp[i] = 0]

\* a controller that starts the new run next to the one in progress
HandleAsyncButtonOperationNoCancel(P, i, feature, llm) ==
    LET o == P.run.nextOp
        P2 == [P EXCEPT !.run.ops[o] = [NoOp EXCEPT !.inst = i, !.feature = feature,
                                                    !.phase = "started"],
                        !.run.nextOp = o + 1]
    IN IF o > MaxOps THEN [P EXCEPT !.ok = FALSE]
       ELSE IF feature = "expand" THEN ExpandWork(P2, o) ELSE TranslateWork(P2, o, llm)

\* UIToolkit.handleAsyncButtonOperation(widget, feature, button, work): a
\* run in progress on the toolbar is cancelled, then work is called
HandleAsyncButtonOperation(P, i, feature, llm) ==
    LET o == P.run.nextOp
        P1 == CancelOperation(P, i)
        P2 == [P1 EXCEPT !.run.ops[o] = [NoOp EXCEPT !.inst = i, !.feature = feature,
                                                     !.phase = "started"],
                         !.run.activeOp[i] = o,
                         !.run.nextOp = o + 1]
    IN IF o > MaxOps THEN [P EXCEPT !.ok = FALSE]
       ELSE IF feature = "expand" THEN ExpandWork(P2, o) ELSE TranslateWork(P2, o, llm)

\* the button of the feature shows the processing state
ButtonProcessing(P, i, feature) ==
    P.run.activeOp[i] # 0 /\ P.run.ops[P.run.activeOp[i]].feature = feature

\* onClick of the expand and of the translate button
OnClick(P, i, feature, llm) ==
    IF ButtonProcessing(P, i, feature) THEN CancelOperation(P, i)
    ELSE HandleAsyncButtonOperation(P, i, feature, llm)

\* HistoryCacheService.canUndo / canRedo
CanUndo(P, node, input) ==
    <<node, input>> \in HistoryKeys /\ P.store.undoState[<<node, input>>].cursor > 1
CanRedo(P, node, input) ==
    /\ <<node, input>> \in HistoryKeys
    /\ P.store.undoState[<<node, input>>].cursor <
           Len(P.store.undoState[<<node, input>>].stack)

\* what undo and redo return: the state of the service afterwards and the
\* snapshot the cursor moved to, or null when there is nothing to move to
NothingToDo(P) == [P |-> P, isNull |-> TRUE, content |-> <<>>]
\* HistoryCacheService.undo(nodeId, inputId)
Undo(P, node, input) ==
    IF ~CanUndo(P, node, input) THEN NothingToDo(P)
    ELSE LET u == P.store.undoState[<<node, input>>]
         IN [P |-> [P EXCEPT !.store.undoState[<<node, input>>].cursor = u.cursor - 1],
             isNull |-> FALSE, content |-> u.stack[u.cursor - 1]]
\* HistoryCacheService.redo(nodeId, inputId)
Redo(P, node, input) ==
    IF ~CanRedo(P, node, input) THEN NothingToDo(P)
    ELSE LET u == P.store.undoState[<<node, input>>]
         IN [P |-> [P EXCEPT !.store.undoState[<<node, input>>].cursor = u.cursor + 1],
             isNull |-> FALSE, content |-> u.stack[u.cursor + 1]]

\* the undo and redo buttons are shown for nodes that are not Note nodes
HasHistoryButtons(P, i) == NodeHasWidgets(SlotNode(P.widgets[i].slot))
\* an undo button that moves the cursor and leaves the input as it is
UndoOnClickNoWrite(P, i) == Undo(P, WidgetNodeId(P, i), WidgetInputId(P, i)).P
\* onClick of the undo button: the returned snapshot is written into the
\* input, null writes nothing
UndoOnClick(P, i) ==
    LET r == Undo(P, WidgetNodeId(P, i), WidgetInputId(P, i))
    IN IF r.isNull THEN r.P ELSE SetInputValue(r.P, i, r.content)
\* a redo button that writes whatever redo returns, null as the empty text
RedoOnClickWritesNull(P, i) ==
    LET r == Redo(P, WidgetNodeId(P, i), WidgetInputId(P, i))
    IN SetInputValue(r.P, i, r.content)
\* onClick of the redo button
RedoOnClick(P, i) ==
    LET r == Redo(P, WidgetNodeId(P, i), WidgetInputId(P, i))
    IN IF r.isNull THEN r.P ELSE SetInputValue(r.P, i, r.content)

(* ------------------------------ text grid ------------------------------ *)
\* "cs" is a comma followed by a space and "c" a bare comma: the separators
\* of the regular expression /[,，、]/ as they occur in the texts of the model
Separators == {"cs", "c"}
\* the texts a user leaves in an input that has a grid
GridTexts == {<<"u", "cs", "z">>, <<"u", "c", "z">>, <<"z", "cs", "u", "cs", "x">>}
\* the example items of a popup opened without items
ExampleItems == << <<"e1">>, <<"e2">> >>
\* textValues.join(', ')
RECURSIVE JoinItems(_)
JoinItems(vs) ==
    IF vs = <<>> THEN <<>>
    ELSE IF Len(vs) = 1 THEN vs[1]
    ELSE vs[1] \o <<"cs">> \o JoinItems(Tail(vs))
\* line.split(/[,，、]/): the parts of t between separators
RECURSIVE SplitParts(_, _)
SplitParts(t, cur) ==
    IF t = <<>> THEN <<cur>>
    ELSE IF t[1] \in Separators THEN <<cur>> \o SplitParts(Tail(t), <<>>)
    ELSE SplitParts(Tail(t), Append(cur, t[1]))
\* part.trim()
RECURSIVE TrimStart(_)
TrimStart(p) == IF p # <<>> /\ p[1] = "w" THEN TrimStart(Tail(p)) ELSE p
RECURSIVE TrimEnd(_)
TrimEnd(p) ==
    IF p # <<>> /\ p[Len(p)] = "w" THEN TrimEnd(SubSeq(p, 1, Len(p) - 1)) ELSE p
Trim(p) == TrimEnd(TrimStart(p))
\* the loop over the parts: empty parts and parts already seen are skipped
RECURSIVE CollectItems(_, _)
CollectItems(parts, seen) ==
    IF parts = <<>> THEN seen
    ELSE LET v == Trim(parts[1])
         IN CollectItems(Tail(parts),
                IF v = <<>> \/ (\E k \in DOMAIN seen : seen[k] = v) THEN seen
                ELSE Append(seen, v))
\* _getTextGridItems(widget) with nothing in the translate cache: the items
\* of the input's text. The texts of the model hold a word whenever they are
\* not blank, so the fall-backs for a text without items are not reached.
GetTextGridItems(P, i) ==
    LET t == GetInputValue(P, i)
    IN IF P.widgets[i].inputEl = NoEl \/ IsBlank(t) THEN <<>>
       ELSE CollectItems(SplitParts(t, <<>>), <<>>)
GridItem(v, d) == [value |-> v, disabled |-> d]
\* the values of the items, of all of them or of the enabled ones
ItemValues(items, includeDisabled) ==
    LET kept == SelectSeq(items, LAMBDA it : includeDisabled \/ ~it.disabled)
    IN [k \in DOMAIN kept |-> kept[k].value]
\* onInput of the inline grid, run by an 'input' event on the input element
GridOnInput(P) ==
    LET g == P.run.grid
    IN IF ~g.listening THEN P
       ELSE IF g.skip THEN [P EXCEPT !.run.grid.skip = FALSE]
       ELSE [P EXCEPT !.run.grid.timer = TRUE]
\* an 'input' event dispatched on element e
GridInputEvent(P, e) ==
    LET g == P.run.grid
    IN IF g.inst # 0 /\ g.listening /\ P.widgets[g.inst].inputEl = e
       THEN GridOnInput(P) ELSE P
\* _updateInputFromGrid(gridContainer, widget, opts)
UpdateInputFromGrid(P, keepDisabledInInput) ==
    LET g == P.run.grid
        e == P.widgets[g.inst].inputEl
    IN IF g.kind = "none" \/ e = NoEl THEN P
       ELSE GridInputEvent(
                [P EXCEPT !.store.value[e] =
                     JoinItems(ItemValues(g.items, keepDisabledInInput))], e)
\* hideTextGridPopup()
HideTextGridPopup(P) ==
    IF P.run.grid.kind = "popup" THEN [P EXCEPT !.run.grid = NoGrid] ELSE P
\* showTextGridPopup({textItems: this._getTextGridItems(widget), widget})
ShowTextGridPopup(P0, i) ==
    LET P == HideTextGridPopup(P0)
        textItems == GetTextGridItems(P, i)
        itemsToShow == IF textItems = <<>> THEN ExampleItems ELSE textItems
    IN [P EXCEPT !.run.grid =
           [NoGrid EXCEPT !.kind = "popup", !.inst = i,
                          !.items = [k \in DOMAIN itemsToShow |->
                                         GridItem(itemsToShow[k], FALSE)]]]
\* render() of the inline grid: the items are rebuilt from getTextItems(),
\* and those whose value was disabled before are disabled again
GridRender(P) ==
    LET g == P.run.grid
        disabledValues == {g.items[k].value : k \in {j \in DOMAIN g.items : g.items[j].disabled}}
        items == GetTextGridItems(P, g.inst)
    IN [P EXCEPT !.run.grid.items =
           [k \in DOMAIN items |-> GridItem(items[k], items[k] \in disabledValues)],
                 !.run.grid.timer = FALSE]
\* createInlineTextGrid({container, widget, getTextItems}), getTextItems
\* being the parse of the widget's input
CreateInlineTextGrid(P, i) ==
    IF P.widgets[i].inputEl = NoEl THEN P
    ELSE GridRender([P EXCEPT !.run.grid =
             [NoGrid EXCEPT !.kind = "inline", !.inst = i, !.listening = TRUE]])
\* the click listener of item k: the item is toggled and the input rewritten
GridItemClick(P, k) ==
    LET g == P.run.grid
        P1 == [P EXCEPT !.run.grid.items[k].disabled = ~@]
    IN IF P.widgets[g.inst].inputEl = NoEl THEN P1
       ELSE IF g.kind = "inline"
       THEN UpdateInputFromGrid([P1 EXCEPT !.run.grid.skip = TRUE], FALSE)
       ELSE UpdateInputFromGrid(P1, FALSE)
\* the items after the item at a was dropped at b
MoveItem(items, a, b) ==
    LET rest == SubSeq(items, 1, a - 1) \o SubSeq(items, a + 1, Len(items))
    IN SubSeq(rest, 1, b - 1) \o <<items[a]>> \o SubSeq(rest, b, Len(rest))
\* onEnd of the Sortable of the grid, evt.oldIndex = a and evt.newIndex = b
GridSortEnd(P, a, b) ==
    LET g == P.run.grid
        P1 == [P EXCEPT !.run.grid.items = MoveItem(g.items, a, b)]
    IN IF a = b \/ P.widgets[g.inst].inputEl = NoEl THEN P1
       ELSE UpdateInputFromGrid(P1, g.kind = "inline")
\* the items a drag can pick up and the items it can be dropped on: the
\* draggable ones, '.text_grid_item:not(.text_grid_item_disabled)'
Draggable(P) == {k \in DOMAIN P.run.grid.items : ~P.run.grid.items[k].disabled}
\* destroy() of the inline grid
GridDestroy(P) ==
    IF P.run.grid.kind = "inline" THEN [P EXCEPT !.run.grid = NoGrid] ELSE P

(* ------------------------------ actions -------------------------------- *)
Apply(P) ==
    /\ P.ok
    /\ instances' = P.instances
    /\ widgets' = P.widgets
    /\ nextId' = P.nextId
    /\ elBound' = P.elBound
    /\ elMounted' = P.elMounted
    /\ elKey' = P.elKey
    /\ listeners' = P.listeners
    /\ retryScans' = P.retryScans
    /\ enabled' = P.enabled
    /\ store' = P.store
    /\ run' = P.run

\* the handlers app.canvas.onSelectionChange can hold: nothing, a handler
\* the host installed, or the assistant's own (created once and kept in
\* app.canvas._promptAssistantSelectionHandler)
HostHandlers == {"host1", "host2"}
Own == "assistant"
\* a canvas the assistant has not touched and the host has set no handler on
NoHandlers == [onSelectionChange |-> "null", original |-> "undefined"]

\* the workflows a run starts from: renderer and nodes of the graph
Workflows ==
    {[vue |-> FALSE, nodes |-> {1}],
     [vue |-> TRUE, nodes |-> {1}],
     [vue |-> TRUE, nodes |-> {2}]}

InitOf(workflows) ==
    /\ instances = [k \in Keys |-> 0]
    /\ widgets = [i \in 1..MaxInst |-> NoWidget]
    /\ nextId = 1
    /\ elBound = [e \in Elements |-> FALSE]
    /\ elMounted = [e \in Elements |-> FALSE]
    /\ elKey = [e \in Elements |-> Undef]
    /\ listeners = {}
    /\ retryScans = [n \in Nodes |-> 0]
    /\ enabled = TRUE
    /\ nodeInit = [n \in Nodes |-> FALSE]
    /\ switching = FALSE
    /\ \E w \in workflows : vueMode = w.vue /\ graphNodes = w.nodes
    /\ rendered = [s \in Slots |-> s # 4]
    /\ curEl = [s \in Slots |-> 1]
    /\ curCont = [s \in Slots |-> 1]
    /\ elParent = [e \in Elements |-> IF e[2] = 1 THEN 1 ELSE 0]
    /\ selHandler = NoHandlers
    /\ store = EmptyStore
    /\ run = [IdleRun EXCEPT !.features = DefaultFeatures]

Init == InitOf(Workflows)

\* the host scans a node (node created, loaded, or re-scanned)
ScanNode(n) ==
    /\ \E t \in BOOLEAN : Apply(CheckAndSetupNode(State, n, t))
    /\ UNCHANGED hostVars

\* the container lookup of a mounting widget resolves
LookupResolve(i) ==
    /\ i \in Allocated(State)
    /\ widgets[i].lookup = "pending"
    /\ Apply(PositionResolved(State, i))
    /\ UNCHANGED hostVars

\* the lookup of a pending _retryDomScan resolves
RetryDomScanResolve(n) ==
    /\ retryScans[n] > 0
    /\ LET P0 == [State EXCEPT !.retryScans[n] = @ - 1]
           ts == RenderedTextareas(n)
       IN \E t \in BOOLEAN :
            Apply(IF ts = <<>> THEN P0
                  ELSE MountDomAssistant(P0, Head(ts), CurrentEl(Head(ts)), <<"text">>, t))
    /\ UNCHANGED hostVars

\* cleanup(nodeId | key | null, silent) called by the host integration
CleanupCall(x, silent) ==
    /\ \E t \in BOOLEAN : Apply(Cleanup(State, x, silent, t))
    /\ UNCHANGED hostVars

NodeList == SelectSeq(<<1, 2, 3>>, LAMBDA n : n \in graphNodes)

RECURSIVE ScanAll(_, _, _)
ScanAll(P, ns, menuThrows) ==
    IF ns = <<>> \/ P.thrown THEN P
    ELSE ScanAll(CheckAndSetupNode(P, Head(ns), menuThrows), Tail(ns), menuThrows)

\* the catch block of toggleGlobalFeature: the error is logged and
\* FEATURES.enabled gets its old value back
CatchToggleError(P, oldValue) ==
    IF P.thrown THEN [P EXCEPT !.enabled = oldValue, !.thrown = FALSE] ELSE P

\* the enabling branch of toggleGlobalFeature after the handler is set:
\* with creation mode "auto" every node of the graph is scanned
EnableScan(P0, oldValue, auto, menuThrows) ==
    CatchToggleError(IF auto THEN ScanAll(P0, NodeList, menuThrows) ELSE P0, oldValue)

\* checkAndSetupNode(node) throws for a node with same-name inputs
ScanThrows(n) ==
    NodeHasWidgets(n) /\ \E k \in DOMAIN ValidInputs(n) :
                             Len(SameNameWidgets(ValidInputs(n)[k])) > 1

\* step 2 of the enabling branch: the handler found on the canvas is saved
\* unless it is missing or the assistant's own, and the own one is installed
InstallSelectionHandler(c) ==
    [onSelectionChange |-> Own,
     original |-> IF c.onSelectionChange # "null" /\ c.onSelectionChange # Own
                  THEN c.onSelectionChange ELSE c.original]

\* step 2 of the disabling branch: the saved handler, or null, is put back
RestoreSelectionHandler(c) ==
    [c EXCEPT !.onSelectionChange =
                  IF c.original # "undefined" THEN c.original ELSE "null"]

\* the body of toggleGlobalFeature(enable, force) entered with oldValue as
\* the value read from FEATURES.enabled; creationMode is the value of the
\* setting PromptAssistant.Settings.CreationMode read by the call; a node
\* is marked initialised just before it is scanned
ToggleGlobalFeatureFrom(oldValue, enable, force, auto) ==
    LET P0 == [State EXCEPT !.enabled = enable]
    IN IF ~force /\ oldValue = enable
       THEN Apply(P0) /\ UNCHANGED hostVars
       ELSE IF enable
       THEN /\ \E t \in BOOLEAN : Apply(EnableScan(P0, oldValue, auto, t))
            /\ nodeInit' = [n \in Nodes |->
                               /\ auto /\ n \in graphNodes
                               /\ \A m \in graphNodes : m < n => ~ScanThrows(m)]
            /\ selHandler' = InstallSelectionHandler(selHandler)
            /\ UNCHANGED <<switching, domVars>>
       ELSE /\ \E t \in BOOLEAN : Apply(Cleanup(P0, Null, TRUE, t))
            /\ selHandler' = RestoreSelectionHandler(selHandler)
            /\ UNCHANGED <<nodeInit, switching, domVars>>

\* toggleGlobalFeature(enable, force) called on the assistant
ToggleGlobalFeature(enable, force, auto) ==
    ToggleGlobalFeatureFrom(enabled, enable, force, auto)

\* onChange of the setting PromptAssistant.Features.Enabled: the handler
\* writes FEATURES.enabled = value itself and then calls
\* toggleGlobalFeature(value, currentState !== value), which therefore
\* reads the new value as its oldValue
EnabledOnChange(value, auto) ==
    ToggleGlobalFeatureFrom(value, value, enabled # value, auto)

\* the body of _promptAssistantSelectionHandler for one selected node
OnSelectionChange(P, n, menuThrows) ==
    IF ~P.enabled THEN P
    ELSE IF nodeInit[n] THEN P
    ELSE CheckAndSetupNode(P, n, menuThrows)

\* the selection handler installed by toggleGlobalFeature
SelectionChange(n) ==
    /\ selHandler.onSelectionChange = Own
    /\ enabled
    /\ ~nodeInit[n]
    /\ nodeInit' = [nodeInit EXCEPT ![n] = TRUE]
    /\ \E t \in BOOLEAN : Apply(OnSelectionChange(State, n, t))
    /\ UNCHANGED <<switching, domVars, selHandler>>

\* onChange of the setting PromptAssistant.Settings.CreationMode: on a
\* change to "auto" with the switch enabled every node that is not marked
\* initialised is scanned; the mark is not set, and an exception leaves the
\* handler at the node that raised it
CreationModeOnChange(auto) ==
    /\ \E t \in BOOLEAN :
          Apply(IF auto /\ enabled
                THEN ScanAll(State, SelectSeq(NodeList, LAMBDA n : ~nodeInit[n]), t)
                ELSE State)
    /\ UNCHANGED hostVars

\* the host (ComfyUI or another extension) sets app.canvas.onSelectionChange
HostSetsSelectionHandler(h) ==
    /\ selHandler.onSelectionChange # h
    /\ selHandler' = [selHandler EXCEPT !.onSelectionChange = h]
    /\ UNCHANGED <<progVars, nodeInit, switching, domVars>>

(* ------------------------------ host DOM steps ------------------------- *)
\* a slot takes part in a run when its node can get an assistant
SlotActive(s) == SlotNode(s) \in graphNodes

\* the host takes the input's DOM out of the document
HostRemoveDom(s) ==
    /\ SlotActive(s) /\ rendered[s]
    /\ rendered' = [rendered EXCEPT ![s] = FALSE]
    /\ UNCHANGED <<progVars, nodeInit, switching, vueMode, curEl, curCont, elParent,
                   selHandler, graphNodes>>

\* ... and puts the same DOM back
HostShowDom(s) ==
    /\ SlotActive(s) /\ ~rendered[s]
    /\ rendered' = [rendered EXCEPT ![s] = TRUE]
    /\ UNCHANGED <<progVars, nodeInit, switching, vueMode, curEl, curCont, elParent,
                   selHandler, graphNodes>>

\* the host renders the input anew: new container, new textarea
HostRecreateDom(s) ==
    /\ SlotActive(s) /\ curEl[s] < GenOf(s) /\ curCont[s] < GenOf(s)
    /\ rendered' = [rendered EXCEPT ![s] = TRUE]
    /\ curEl' = [curEl EXCEPT ![s] = @ + 1]
    /\ curCont' = [curCont EXCEPT ![s] = @ + 1]
    /\ elParent' = [elParent EXCEPT ![<<s, curEl[s] + 1>>] = curCont[s] + 1]
    /\ UNCHANGED <<progVars, nodeInit, switching, vueMode, selHandler, graphNodes>>

\* the host replaces the textarea inside the container it keeps
HostReplaceTextarea(s) ==
    /\ SlotActive(s) /\ rendered[s] /\ curEl[s] < GenOf(s)
    /\ curEl' = [curEl EXCEPT ![s] = @ + 1]
    /\ elParent' = [elParent EXCEPT ![<<s, curEl[s] + 1>>] = curCont[s]]
    /\ UNCHANGED <<progVars, nodeInit, switching, vueMode, rendered, curCont,
                   selHandler, graphNodes>>

\* the integration sets / clears the workflow-switching flag
SetWorkflowSwitching(b) ==
    /\ switching # b
    /\ switching' = b
    /\ UNCHANGED <<progVars, nodeInit, domVars, selHandler>>

\* the instance lifecycle with the feature switched on: scans, lookups,
\* teardown and the host's DOM changes
Next ==
    \/ \E n \in graphNodes : ScanNode(n)
    \/ \E i \in 1..MaxInst : LookupResolve(i)
    \/ \E n \in graphNodes : RetryDomScanResolve(n)
    \/ \E x \in {Null} \cup {<<NodeIdStr(n)>> : n \in graphNodes} : CleanupCall(x, FALSE)
    \/ \E s \in Slots : HostRemoveDom(s)
    \/ \E s \in Slots : HostShowDom(s)
    \/ \E s \in Slots : HostRecreateDom(s)
    \/ \E s \in Slots : HostReplaceTextarea(s)
    \/ \E b \in BOOLEAN : SetWorkflowSwitching(b)

Spec == Init /\ [][Next]_vars

\* the lifecycle with the container lookup resolving: the promise of
\* findMountContainerWithRetry is settled after at most maxRetries attempts,
\* so a pending lookup is resolved eventually
MountSpec == Init /\ [][Next]_vars /\ \A i \in 1..MaxInst : WF_vars(LookupResolve(i))

\* the master switch and the selection handler on top of scans and lookups
FeatureNext ==
    \/ \E e \in BOOLEAN, f \in BOOLEAN, a \in BOOLEAN : ToggleGlobalFeature(e, f, a)
    \/ \E n \in graphNodes : SelectionChange(n)
    \/ \E n \in graphNodes : ScanNode(n)
    \/ \E i \in 1..MaxInst : LookupResolve(i)
    \/ \E n \in graphNodes : RetryDomScanResolve(n)
    \/ \E s \in Slots : HostRemoveDom(s)
    \/ \E s \in Slots : HostShowDom(s)

FeatureSpec == Init /\ [][FeatureNext]_vars

(* ------------------------------ operation steps ------------------------ *)
\* the toolbar of widget i is in the document and its buttons can be clicked
Clickable(i) ==
    i \in Allocated(State) /\ widgets[i].element /\ ContInDoc(widgets[i].toolbar)

\* the user clicks the expand or the translate button of a toolbar
ClickButton(i, feature) ==
    /\ Clickable(i)
    /\ \E llm \in BOOLEAN : Apply(OnClick(State, i, feature, llm))
    /\ UNCHANGED hostVars

\* the provider delivers the next chunk of a streaming call
ProviderChunk(o) ==
    /\ run.ops[o].phase = "calling" /\ run.ops[o].streaming
    /\ Len(run.ops[o].stream) < 2
    /\ Apply(StreamCallback(State, o, ChunkTok(o, Len(run.ops[o].stream) + 1)))
    /\ UNCHANGED hostVars

\* the awaited provider call resolves with a result
ProviderResolve(o) ==
    /\ run.ops[o].phase = "calling"
    /\ \E success \in BOOLEAN, data \in {<<>>, FullAnswer(o)} :
          Apply(IF run.ops[o].feature = "expand"
                THEN ExpandResolved(State, o, success, data)
                ELSE TranslateResolved(State, o, success, data))
    /\ UNCHANGED hostVars

\* the awaited provider call rejects
ProviderReject(o) ==
    /\ run.ops[o].phase = "calling"
    /\ Apply(WorkRejected(State, o))
    /\ UNCHANGED hostVars

\* the input loses the focus: every blur listener on it runs
RECURSIVE RunBlurListeners(_, _)
RunBlurListeners(P, ls) ==
    IF ls = {} THEN P
    ELSE LET l == CHOOSE l \in ls : TRUE
         IN RunBlurListeners(BlurListener(P, l), ls \ {l})

\* the input e loses the focus, at most `most` times in one behaviour
LoseFocus(e, most) ==
    /\ ElInDoc(e)
    /\ {l \in listeners : l.el = e /\ l.kind = "blur"} # {}
    /\ run.blurs < most
    /\ Apply([RunBlurListeners(State, {l \in listeners : l.el = e /\ l.kind = "blur"})
                 EXCEPT !.run.blurs = @ + 1])
    /\ UNCHANGED hostVars

BlurInput(e) == LoseFocus(e, MaxBlurs)

\* the user replaces the text of input e, at most `most` times in one behaviour
EditText(e, t, most) ==
    /\ ElInDoc(e) /\ SlotActive(e[1])
    /\ store.value[e] # t
    /\ run.edits < most
    /\ Apply([State EXCEPT !.store.value[e] = t, !.run.edits = @ + 1])
    /\ UNCHANGED hostVars

\* the user edits the text of an input
UserTypes(e, t) == EditText(e, t, MaxEdits)

\* the user clicks the undo button of a toolbar
ClickUndo(i) ==
    /\ Clickable(i) /\ HasHistoryButtons(State, i)
    /\ Apply(UndoOnClick(State, i))
    /\ UNCHANGED hostVars

\* the user clicks the redo button of a toolbar
ClickRedo(i) ==
    /\ Clickable(i) /\ HasHistoryButtons(State, i)
    /\ Apply(RedoOnClick(State, i))
    /\ UNCHANGED hostVars

\* the tag tool of a toolbar caches tags for its input
TagsCached(i) ==
    /\ Clickable(i)
    /\ <<WidgetNodeId(State, i), WidgetInputId(State, i)>> \notin store.tagCache
    /\ Apply([State EXCEPT !.store.tagCache =
                 @ \cup {<<WidgetNodeId(State, i), WidgetInputId(State, i)>>}])
    /\ UNCHANGED hostVars

\* the user changes one of the settings PromptAssistant.Features.*
SetFeature(f) ==
    /\ run.changes < MaxSettingChanges
    /\ Apply([State EXCEPT !.run.features[f] = ~@, !.run.changes = @ + 1])
    /\ UNCHANGED hostVars

\* operations on the toolbars of a standard node under the legacy
\* renderer: scans and lookups mount the toolbars, the user edits, leaves
\* the inputs, clicks the buttons and changes the settings, the provider
\* answers
OperationInit ==
    /\ Init
    /\ graphNodes = {1} /\ ~vueMode

OperationNext ==
    \/ \E n \in graphNodes : ScanNode(n)
    \/ \E i \in 1..MaxInst : LookupResolve(i)
    \/ \E i \in 1..MaxInst, feature \in {"expand", "translate"} : ClickButton(i, feature)
    \/ \E o \in 1..MaxOps : ProviderChunk(o)
    \/ \E o \in 1..MaxOps : ProviderResolve(o)
    \/ \E o \in 1..MaxOps : ProviderReject(o)
    \/ \E e \in Elements : BlurInput(e)
    \/ \E e \in Elements, t \in UserTexts : UserTypes(e, t)
    \/ \E f \in {"useTranslateCache", "cacheMixedLangTranslation", "enableStreaming"} :
          SetFeature(f)

OperationSpec == OperationInit /\ [][OperationNext]_vars

\* housekeeping of the caches: the user edits and leaves inputs, tags are
\* cached, cleanup is called with and without the silent flag
HousekeepingNext ==
    \/ \E n \in graphNodes : ScanNode(n)
    \/ \E i \in 1..MaxInst : LookupResolve(i)
    \/ \E x \in {Null} \cup {<<NodeIdStr(n)>> : n \in graphNodes}, silent \in BOOLEAN :
          CleanupCall(x, silent)
    \/ \E e \in Elements : BlurInput(e)
    \/ \E e \in Elements, t \in UserTexts : UserTypes(e, t)
    \/ \E i \in 1..MaxInst : TagsCached(i)

HousekeepingSpec == Init /\ [][HousekeepingNext]_vars

\* undo and redo: the user edits and leaves the inputs of node 1 several
\* times and walks the recorded snapshots with the undo and redo buttons
HistoryTypes(e, t) == EditText(e, t, MaxHistoryEdits)
HistoryBlur(e) == LoseFocus(e, MaxHistoryBlurs)

HistoryNext ==
    \/ \E n \in graphNodes : ScanNode(n)
    \/ \E i \in 1..MaxInst : LookupResolve(i)
    \/ \E e \in Elements, t \in UserTexts : HistoryTypes(e, t)
    \/ \E e \in Elements : HistoryBlur(e)
    \/ \E i \in 1..MaxInst : ClickUndo(i)
    \/ \E i \in 1..MaxInst : ClickRedo(i)

HistorySpec == OperationInit /\ [][HistoryNext]_vars

\* a workflow with node 1 and node 3, whose two text widgets share a name
SameNameWorkflows ==
    {[vue |-> FALSE, nodes |-> {1, 3}],
     [vue |-> TRUE, nodes |-> {1, 3}]}

SameNameInit == InitOf(SameNameWorkflows)

SameNameNext ==
    \/ \E e \in BOOLEAN, f \in BOOLEAN, a \in BOOLEAN : ToggleGlobalFeature(e, f, a)
    \/ \E n \in graphNodes : SelectionChange(n)
    \/ \E n \in graphNodes : ScanNode(n)
    \/ \E i \in 1..MaxInst : LookupResolve(i)
    \/ \E x \in {Null} \cup {<<NodeIdStr(n)>> : n \in graphNodes}, silent \in BOOLEAN :
          CleanupCall(x, silent)
    \/ \E s \in Slots : HostRemoveDom(s)
    \/ \E s \in Slots : HostShowDom(s)

SameNameSpec == SameNameInit /\ [][SameNameNext]_vars

\* operations and teardown: the toolbars of node 1 are mounted, the user
\* types and starts operations, and the instances are torn down by the
\* cleanup calls and by the master switch while the provider still answers
TeardownNext ==
    \/ \E n \in graphNodes : ScanNode(n)
    \/ \E i \in 1..MaxInst : LookupResolve(i)
    \/ \E i \in 1..MaxInst, feature \in {"expand", "translate"} : ClickButton(i, feature)
    \/ \E o \in 1..MaxOps : ProviderChunk(o)
    \/ \E o \in 1..MaxOps : ProviderResolve(o)
    \/ \E o \in 1..MaxOps : ProviderReject(o)
    \/ \E e \in Elements, t \in UserTexts : UserTypes(e, t)
    \/ \E x \in {Null} \cup {<<NodeIdStr(n)>> : n \in graphNodes} : CleanupCall(x, FALSE)
    \/ ToggleGlobalFeature(FALSE, FALSE, FALSE)

TeardownSpec == OperationInit /\ [][TeardownNext]_vars

\* housekeeping around a workflow switch: as above, with the integration
\* setting and clearing the workflow-switching flag
SwitchingNext ==
    \/ \E n \in graphNodes : ScanNode(n)
    \/ \E i \in 1..MaxInst : LookupResolve(i)
    \/ \E x \in {Null} \cup {<<NodeIdStr(n)>> : n \in graphNodes}, silent \in BOOLEAN :
          CleanupCall(x, silent)
    \/ \E e \in Elements : BlurInput(e)
    \/ \E e \in Elements, t \in UserTexts : UserTypes(e, t)
    \/ \E i \in 1..MaxInst : TagsCached(i)
    \/ \E b \in BOOLEAN : SetWorkflowSwitching(b)

SwitchingSpec == Init /\ [][SwitchingNext]_vars

\* the settings panel on a workflow with node 1 and node 3: the user flips
\* the master switch and the creation mode, the host reports selections,
\* scans and cleans up nodes and shows and hides inputs, lookups resolve
SettingsNext ==
    \/ \E v \in BOOLEAN, a \in BOOLEAN : EnabledOnChange(v, a)
    \/ \E e \in BOOLEAN, f \in BOOLEAN, a \in BOOLEAN : ToggleGlobalFeature(e, f, a)
    \/ \E a \in BOOLEAN : CreationModeOnChange(a)
    \/ \E n \in graphNodes : SelectionChange(n)
    \/ \E n \in graphNodes : ScanNode(n)
    \/ \E i \in 1..MaxInst : LookupResolve(i)
    \/ \E x \in {Null} \cup {<<NodeIdStr(n)>> : n \in graphNodes} : CleanupCall(x, TRUE)
    \/ \E s \in Slots : HostRemoveDom(s)
    \/ \E s \in Slots : HostShowDom(s)

SettingsSpec == SameNameInit /\ [][SettingsNext]_vars

\* the selection handler of the canvas: the switch is toggled while the
\* host sets and removes handlers of its own
HandlerNext ==
    \/ \E e \in BOOLEAN, f \in BOOLEAN, a \in BOOLEAN : ToggleGlobalFeature(e, f, a)
    \/ \E h \in HostHandlers \cup {"null"} : HostSetsSelectionHandler(h)
    \/ \E n \in graphNodes : SelectionChange(n)
    \/ \E i \in 1..MaxInst : LookupResolve(i)

HandlerSpec == Init /\ [][HandlerNext]_vars

\* the text grid of one input: the user types into the input, opens and
\* closes the popup or an inline grid, clicks items and drags them
GridUserTypes(e, t) ==
    /\ ElInDoc(e) /\ SlotActive(e[1])
    /\ store.value[e] # t
    /\ run.edits < MaxGridEdits
    /\ Apply(GridInputEvent([State EXCEPT !.store.value[e] = t, !.run.edits = @ + 1], e))
    /\ UNCHANGED hostVars
\* the text grid button of a toolbar is clicked
OpenTextGridPopup(i) ==
    /\ Clickable(i) /\ run.grid.kind \in {"none", "popup"}
    /\ Apply(ShowTextGridPopup(State, i))
    /\ UNCHANGED hostVars
\* the close button of the popup
CloseTextGridPopup ==
    /\ run.grid.kind = "popup"
    /\ Apply(HideTextGridPopup(State))
    /\ UNCHANGED hostVars
\* a node builds an inline grid over the input of widget i
OpenInlineTextGrid(i) ==
    /\ Clickable(i) /\ run.grid.kind = "none"
    /\ Apply(CreateInlineTextGrid(State, i))
    /\ UNCHANGED hostVars
\* the node destroys its inline grid
DestroyInlineTextGrid ==
    /\ run.grid.kind = "inline"
    /\ Apply(GridDestroy(State))
    /\ UNCHANGED hostVars
\* the user clicks item k of the grid
ClickGridItem(k) ==
    /\ run.grid.kind # "none" /\ k \in DOMAIN run.grid.items
    /\ Apply(GridItemClick(State, k))
    /\ UNCHANGED hostVars
\* the user drags the enabled item at a onto the enabled item at b
DragGridItem(a, b) ==
    /\ run.grid.kind # "none"
    /\ a \in Draggable(State) /\ b \in Draggable(State) /\ a # b
    /\ Apply(GridSortEnd(State, a, b))
    /\ UNCHANGED hostVars
\* the 400 ms of the debounce are over: the inline grid is rendered again
GridDebounceFires ==
    /\ run.grid.kind = "inline" /\ run.grid.timer
    /\ Apply(GridRender(State))
    /\ UNCHANGED hostVars
\* the longest list of items of a grid
MaxItems == 3

GridNext ==
    \/ \E n \in graphNodes : ScanNode(n)
    \/ \E i \in 1..MaxInst : LookupResolve(i)
    \/ \E e \in Elements, t \in GridTexts : GridUserTypes(e, t)
    \/ \E i \in 1..MaxInst : OpenTextGridPopup(i)
    \/ CloseTextGridPopup
    \/ \E i \in 1..MaxInst : OpenInlineTextGrid(i)
    \/ DestroyInlineTextGrid
    \/ \E k \in 1..MaxItems : ClickGridItem(k)
    \/ \E a \in 1..MaxItems, b \in 1..MaxItems : DragGridItem(a, b)
    \/ GridDebounceFires

GridSpec == OperationInit /\ [][GridNext]_vars

(* ------------------------------ properties ----------------------------- *)
Created(i) == i \in Allocated(State)
\* _cleanupInstance has run for widget i: its own properties are deleted
Destroyed(i) == Created(i) /\ ~widgets[i].element
Candidate(i) == Created(i) /\ widgets[i].element
IsRegistered(i) == Candidate(i) /\ instances[widgets[i].key] = i
LookupPending(i) == Created(i) /\ widgets[i].lookup = "pending"
\* registered, _isMounting set, container lookup not resolved yet
Mounting(i) == IsRegistered(i) /\ widgets[i].isMounting /\ LookupPending(i)
\* registered, mount completed, toolbar inside a container of the document
Mounted(i) ==
    /\ IsRegistered(i)
    /\ ~widgets[i].isMounting
    /\ widgets[i].lookup = "done"
    /\ ContInDoc(widgets[i].toolbar)
ToolbarsIn(P, c) == {j \in Allocated(P) : P.widgets[j].toolbar = c}
ListenersOn(P, e, kind) == {l \in P.listeners : l.el = e /\ l.kind = kind}

\* the inputs a scan of node n examines, and the key it computes for each
ScanInputs(n) ==
    IF NodeHasWidgets(n) THEN ValidInputs(n)
    ELSE IF vueMode THEN RenderedTextareas(n) ELSE <<>>
ScanKey(s) ==
    IF NodeHasWidgets(SlotNode(s)) THEN SlotKey(s)
    ELSE IF Len(RenderedTextareas(SlotNode(s))) = 1
    THEN AssistantKey(SlotNode(s), <<"text">>)
    ELSE AssistantKey(SlotNode(s), <<"input", IndexStr(s - 3)>>)

\* C1 (as claimed): a scan of a node whose instance for some key is still
\* mounting starts no second mount for that key: the registry entry stays
\* the first instance, the instance is untouched and the scan allocates no
\* other widget under that key.
C1_MountRaceSafety ==
    \A n \in graphNodes, t \in BOOLEAN, i \in 1..MaxInst :
        LET P == CheckAndSetupNode(State, n, t)
        IN (Mounting(i) /\ SlotNode(widgets[i].slot) = n /\ P.ok) =>
              /\ P.instances[widgets[i].key] = i
              /\ P.widgets[i] = widgets[i]
              /\ \A j \in Allocated(P) \ Allocated(State) :
                    P.widgets[j].slot # widgets[i].slot

\* the mounts of node n have completed and the node is unchanged since:
\* every input the scan examines has its instance mounted on the input's
\* current element and no lookup of the node is pending
Settled(n) ==
    /\ ScanInputs(n) # <<>>
    /\ \A i \in Allocated(State) : SlotNode(widgets[i].slot) = n => ~LookupPending(i)
    /\ \A k \in DOMAIN ScanInputs(n) :
          LET s == ScanInputs(n)[k]
              i == instances[ScanKey(s)]
          IN /\ i # 0
             /\ Mounted(i)
             /\ rendered[s]
             /\ widgets[i].inputEl = CurrentEl(s)
             /\ widgets[i].toolbar = ParentOf(CurrentEl(s))

\* C2: once the mounts of a node have completed, scanning the unchanged
\* node again changes nothing; each of its inputs has exactly one registered
\* instance on its element and exactly one toolbar in its container; and
\* createAssistant
\* for a registered key creates and registers nothing.
C2_ScanIdempotent ==
    /\ \A n \in graphNodes :
          Settled(n) =>
             /\ \A t \in BOOLEAN : CheckAndSetupNode(State, n, t) = State
             /\ \A k \in DOMAIN ScanInputs(n) :
                   LET s == ScanInputs(n)[k]
                   IN /\ Cardinality({i \in Allocated(State) :
                                         /\ IsRegistered(i)
                                         /\ widgets[i].inputEl = CurrentEl(s)}) = 1
                      /\ Cardinality(ToolbarsIn(State, ParentOf(CurrentEl(s)))) = 1
    /\ \A key \in Keys, s \in Slots, e \in Elements \cup {NoEl} :
          hasInstance(State, key) => CreateAssistant(State, s, e, key) = State

\* C2's case: a node all of whose inputs are mounted, two of them on node 1
C2_Witness ==
    \E n \in graphNodes : Settled(n) /\ Len(ScanInputs(n)) = 2

\* C3 (as claimed): when the pending lookup of a destroyed instance
\* resolves with a textarea of the document, no toolbar is attached, no
\* mount marker or bound flag is set and no listener is bound.
C3_DestroyedIsAbsorbing ==
    \A i \in 1..MaxInst, ta \in Elements :
        (Destroyed(i) /\ LookupPending(i) /\ ElInDoc(ta) /\ ta[1] = widgets[i].slot) =>
            LET P == PositionApplied(State, i, ta)
            IN /\ P.widgets[i].toolbar = NoCont
               /\ P.elMounted = elMounted
               /\ P.elBound = elBound
               /\ P.listeners = listeners

\* the mount of widget i ends in retry exhaustion in this step
MountFails(i) == widgets[i].outcome # "failed" /\ widgets'[i].outcome = "failed"

FailedLast(s) ==
    /\ ~hasInstance(State, ScanKey(s))
    /\ \E i \in Allocated(State) :
          /\ widgets[i].slot = s
          /\ Candidate(i)
          /\ widgets[i].outcome = "failed"
          /\ ~hasInstance(State, widgets[i].key)
          /\ \A j \in Allocated(State) : j > i => widgets[j].slot # s
\* the scan finds the input: a widget of the node, or a rendered textarea
Scannable(s) == NodeHasWidgets(SlotNode(s)) \/ (vueMode /\ rendered[s])
\* the element the scan examines for input s carries a mount marker
ScanSeesMarker(s) ==
    ~(vueMode /\ NodeHasWidgets(SlotNode(s))) /\ elMounted[CurrentEl(s)]

\* C5: a mount that ends in retry exhaustion frees the key and sets no mount
\* marker, and after it the next scan of the node starts a fresh mount
\* attempt for the input unless the input's element carries the mount
\* marker of some instance.
C5_ReattemptAfterFailedMount ==
    /\ \A i \in 1..MaxInst :
          (Candidate(i) /\ LookupPending(i)) =>
              LET P == OnComplete(State, i, FALSE)
              IN /\ P.elMounted = elMounted /\ P.elKey = elKey
                 /\ ~hasInstance(P, widgets[i].key)
    /\ \A s \in Slots, t \in BOOLEAN :
          (SlotActive(s) /\ FailedLast(s) /\ Scannable(s) /\ ~ScanSeesMarker(s)) =>
              LET P == CheckAndSetupNode(State, SlotNode(s), t)
              IN P.ok =>
                   \E j \in Allocated(P) \ Allocated(State) :
                       /\ P.widgets[j].slot = s
                       /\ P.widgets[j].lookup = "pending"

\* C5's case: the scan after a failed mount has started a second attempt
C5_Witness ==
    \E i, j \in Allocated(State) :
        /\ i < j
        /\ widgets[i].slot = widgets[j].slot
        /\ Candidate(i) /\ widgets[i].outcome = "failed"
        /\ Mounting(j)
        /\ widgets[j].inputEl # NoEl
        /\ widgets[j].inputEl = widgets[i].inputEl

\* textarea ta carries a mount marker that names another key than widget i's
ClaimedByOther(i, ta) == elMounted[ta] /\ elKey[ta] # widgets[i].key

\* C6: no container holds two toolbars and no element is the input of two
\* attached toolbars; a mount attempt that finds the mount marker of another
\* key on its element aborts, leaving markers, the other registry entries
\* and the other widgets as they are, its own key unregistered and its
\* toolbar unattached.
C6_FirstClaimWins ==
    /\ \A e \in Elements :
          /\ Cardinality(ToolbarsIn(State, e)) <= 1
          /\ Cardinality({j \in Allocated(State) :
                            widgets[j].toolbar # NoCont /\ widgets[j].inputEl = e}) <= 1
    /\ \A i \in 1..MaxInst, ta \in Elements :
          (LookupPending(i) /\ ClaimedByOther(i, ta)) =>
              LET P == PositionApplied(State, i, ta)
                  key == widgets[i].key
              IN /\ P.elMounted = elMounted
                 /\ P.elKey = elKey
                 /\ P.widgets[i].toolbar = NoCont
                 /\ \A k \in Keys : P.instances[k] = IF k = key THEN 0 ELSE instances[k]
                 /\ \A j \in 1..MaxInst : j # i => P.widgets[j] = widgets[j]

\* C6's case: candidate i aborted on the element that instance j, registered
\* under another key, has claimed and keeps
C6_Witness ==
    \E i, j \in Allocated(State) :
        /\ Candidate(i) /\ widgets[i].outcome = "aborted" /\ ~IsRegistered(i)
        /\ Mounted(j)
        /\ widgets[j].key # widgets[i].key
        /\ widgets[j].inputEl = widgets[i].inputEl
        /\ elMounted[widgets[j].inputEl]
        /\ elKey[widgets[j].inputEl] = widgets[j].key

\* C7 (as claimed): every input element has at most one assistant blur
\* listener and at most one assistant input listener attached.
C7_BoundOncePerElement ==
    \A e \in Elements, kind \in {"blur", "input"} :
        Cardinality(ListenersOn(State, e, kind)) <= 1

\* the state after _cleanupInstance(widget i, its key) alone
AfterTeardown(i, menuThrows) ==
    CleanupInstance(State, i, widgets[i].key, FALSE, menuThrows)

\* C8: _cleanupInstance invokes every registered cleanup function, in
\* registration order, also when one of them throws, and leaves the list
\* empty; afterwards none of the instance's listeners is attached and its
\* input element carries neither the bound flag nor the mount marker; and
\* when the instance was mounted on the input's current element, the next
\* scan starts a new instance which, when its lookup finds that element,
\* binds and marks it.
C8_UnbindOnTeardown ==
    \A i \in 1..MaxInst, t \in BOOLEAN :
        IsRegistered(i) =>
            LET w == widgets[i]
                e == w.inputEl
                P == AfterTeardown(i, t)
                P2 == CheckAndSetupNode(P, SlotNode(w.slot), t)
                j == P2.instances[ScanKey(w.slot)]
                P3 == PositionApplied(P2, j, e)
            IN /\ InvokedCleanups(w.cleanups, t) = w.cleanups
               /\ P.widgets[i].cleanups = <<>>
               /\ {l \in P.listeners : l.owner = i} = {}
               /\ e # NoEl => ~P.elBound[e] /\ ~P.elMounted[e]
               /\ (Mounted(i) /\ Settled(SlotNode(w.slot)) /\ w.key = ScanKey(w.slot)
                        /\ P2.ok) =>
                     /\ j \notin Allocated(State)
                     /\ j \in Allocated(P2)
                     /\ P3.widgets[j].toolbar = w.toolbar
                     /\ P3.widgets[j].inputEl = e
                     /\ P3.elBound[e] /\ P3.elMounted[e]
                     /\ P3.elKey[e] = w.key
                     /\ \E l \in P3.listeners : l.el = e /\ l.kind = "blur"

\* C8's case: instance i was mounted and torn down, and a later instance j
\* is mounted on the same, never re-rendered element
C8_Witness ==
    \E i, j \in Allocated(State) :
        /\ i < j
        /\ Destroyed(i) /\ widgets[i].outcome = "mounted"
        /\ widgets[j].slot = widgets[i].slot
        /\ curEl[widgets[j].slot] = 1
        /\ Mounted(j)
        /\ widgets[j].inputEl = CurrentEl(widgets[j].slot)
        /\ Listener(widgets[j].inputEl, "blur", j) \in listeners
        /\ \A l \in listeners : l.owner # i

\* C9 (as claimed): no scan of a node destroys an instance of that node
\* whose _isMounting flag is set.
C9_StaleTeardownGuard ==
    \A n \in graphNodes, t \in BOOLEAN, i \in 1..MaxInst :
        LET P == CheckAndSetupNode(State, n, t)
        IN (IsRegistered(i) /\ widgets[i].isMounting /\ SlotNode(widgets[i].slot) = n
                /\ P.ok) =>
              P.widgets[i].element /\ P.widgets[i].isDestroyed = "false"

\* instance i is registered and fully mounted but its toolbar, or the input
\* element it is bound to, is no longer in the document
Stale(i) ==
    /\ IsRegistered(i)
    /\ ~widgets[i].isMounting
    /\ widgets[i].lookup = "done"
    /\ widgets[i].toolbar # NoCont
    /\ ~ContInDoc(widgets[i].toolbar) \/ ~ElInDoc(widgets[i].inputEl)

\* C10 (as claimed): the next scan of a node tears down a stale instance of
\* the node and registers a fresh instance for the same input, and when the
\* fresh instance's lookup finds the input the input has exactly one
\* attached toolbar, the fresh instance's.
C10_StaleReferenceRecovery ==
    \A i \in 1..MaxInst, t \in BOOLEAN :
        (Stale(i) /\ Scannable(widgets[i].slot)) =>
            LET s == widgets[i].slot
                P == CheckAndSetupNode(State, SlotNode(s), t)
                j == P.instances[ScanKey(s)]
                P2 == PositionApplied(P, j, CurrentEl(s))
            IN P.ok =>
                 /\ ~P.widgets[i].element
                 /\ j # 0 /\ j # i
                 /\ P.widgets[j].lookup = "pending"
                 /\ rendered[s] =>
                       /\ P2.widgets[j].toolbar = ParentOf(CurrentEl(s))
                       /\ ToolbarsIn(P2, ParentOf(CurrentEl(s))) = {j}

(* ------------------------------ cleanup contract ----------------------- *)
\* the keys of node n's inputs, and the arguments cleanup is called with
NodeKeys(n) == {k \in Keys : k[2] = NodeIdStr(n)}
NodeArg(n) == <<NodeIdStr(n)>>
\* a toolbar of widget i is attached to a container of the document
ToolbarAttached(P, i) == ContInDoc(P.widgets[i].toolbar)

\* C11 (as claimed): after cleanup(nodeId) no key of the node is registered
\* and no toolbar of the node is attached; after cleanup(null) the registry
\* is empty; with the workflow-switching flag set or clear.
C11_CleanupCompleteness ==
    \A t \in BOOLEAN :
        /\ \A n \in graphNodes :
              LET P == Cleanup(State, NodeArg(n), FALSE, t)
              IN /\ \A k \in NodeKeys(n) : ~hasInstance(P, k)
                 /\ \A i \in 1..MaxInst :
                       (IsRegistered(i) /\ SlotNode(widgets[i].slot) = n) =>
                           ~ToolbarAttached(P, i)
        /\ Registered(Cleanup(State, Null, FALSE, t)) = {}

\* C12 (as claimed): cleanup(x), x a node id or the full key of a registered
\* instance, leaves every registered instance of another node, and for a
\* full key every instance registered under another key, as it was: registry
\* entry, attached toolbar and mount marker.
Untouched(P, j) ==
    /\ P.instances[widgets[j].key] = j
    /\ P.widgets[j].toolbar = widgets[j].toolbar
    /\ widgets[j].inputEl # NoEl =>
          /\ P.elMounted[widgets[j].inputEl] = elMounted[widgets[j].inputEl]
          /\ P.elKey[widgets[j].inputEl] = elKey[widgets[j].inputEl]

C12_CleanupPrecision ==
    \A t \in BOOLEAN, j \in 1..MaxInst :
        IsRegistered(j) =>
            /\ \A n \in Nodes :
                  SlotNode(widgets[j].slot) # n => Untouched(Cleanup(State, NodeArg(n), FALSE, t), j)
            /\ \A k \in Registered(State) :
                  k # widgets[j].key => Untouched(Cleanup(State, k, FALSE, t), j)


\* the arguments cleanup is called with: nothing, a node id, a full key
CleanupArgs == {Null} \cup {NodeArg(n) : n \in Nodes} \cup Registered(State)

\* C13: the silent flag of cleanup affects logging only: for every argument
\* a silent and a non-silent cleanup leave the same registry, element
\* flags, listeners, toolbars, history, undo states and tag caches
C13_SilentOnlyLogging ==
    \A t \in BOOLEAN, x \in CleanupArgs :
        Cleanup(State, x, TRUE, t) = Cleanup(State, x, FALSE, t)

\* a cleanup of a node that has a registered instance, recorded history and
\* cached tags, and that removes all three
C13_Witness ==
    \E n \in graphNodes :
        LET P == Cleanup(State, NodeArg(n), TRUE, FALSE)
        IN /\ ~switching
           /\ \E k \in NodeKeys(n) : hasInstance(State, k) /\ ~hasInstance(P, k)
           /\ \E h \in store.history : <<h.node>> = NodeArg(n) /\ h \notin P.store.history
           /\ \E tc \in store.tagCache : tc \notin P.store.tagCache

(* ------------------------------ global switch -------------------------- *)
\* C14: instances exist only while the feature is enabled: whenever the
\* switch is off, the registry is empty and no toolbar is attached to any
\* input, whatever scan, selection notification or pending lookup ran since
C14_GlobalSwitch ==
    ~enabled =>
        /\ Registered(State) = {}
        /\ \A i \in 1..MaxInst : ~ToolbarAttached(State, i)

(* ------------------------------ operations ----------------------------- *)
\* operation o is in progress: its call is awaited and its token is valid
InProgress(P, o) == P.run.ops[o].phase = "calling" /\ ~P.run.ops[o].cancelled
\* the operations in progress on the toolbar of widget i
InProgressOn(P, i) == {o \in 1..MaxOps : InProgress(P, o) /\ P.run.ops[o].inst = i}
Features == {"expand", "translate"}

\* C15: single-flight per toolbar: at most one translate / expand operation
\* is in progress on an instance, and a click on either button of an
\* instance that has one in progress cancels the running one
C15_SingleFlight ==
    \A i \in 1..MaxInst :
        /\ Cardinality(InProgressOn(State, i)) <= 1
        /\ Clickable(i) =>
              \A feature \in Features, llm \in BOOLEAN :
                  LET P == OnClick(State, i, feature, llm)
                  IN P.ok =>
                        /\ \A o \in InProgressOn(State, i) : P.run.ops[o].cancelled
                        /\ Cardinality(InProgressOn(P, i)) <= 1

\* a click on the other button of a toolbar that has an operation in
\* progress: the new operation proceeds, the running one is cancelled
C15_Witness ==
    \E i \in 1..MaxInst, feature \in Features :
        LET P == OnClick(State, i, feature, TRUE)
        IN /\ Clickable(i) /\ P.ok
           /\ \E a \in InProgressOn(State, i) :
                 /\ run.ops[a].feature # feature
                 /\ P.run.ops[a].cancelled /\ P.run.ops[a].phase = "calling"
                 /\ \E b \in InProgressOn(P, i) : b # a

\* operation o was cancelled and its call has not come back yet
CancelledPending(P, o) == P.run.ops[o].phase = "calling" /\ P.run.ops[o].cancelled

\* what an operation may write: the input texts and the history
Written(P) == <<P.store.value, P.store.history>>

\* C16 (as claimed): cancelled results are dropped: when operation b was
\* started on an instance while streaming operation a had not resolved,
\* no further chunk of a and no final result of a, whether it succeeds or
\* fails, changes an input text or the history
C16_CancelledResultsDropped ==
    \A a \in 1..MaxOps, b \in 1..MaxOps :
        (/\ a # b
         /\ CancelledPending(State, a) /\ run.ops[a].streaming
         /\ InProgress(State, b) /\ run.ops[b].inst = run.ops[a].inst) =>
            /\ Len(run.ops[a].stream) < 2 =>
                  Written(StreamCallback(State, a, ChunkTok(a, Len(run.ops[a].stream) + 1)))
                     = Written(State)
            /\ \A success \in BOOLEAN, data \in {<<>>, FullAnswer(a)} :
                  Written(IF run.ops[a].feature = "expand"
                          THEN ExpandResolved(State, a, success, data)
                          ELSE TranslateResolved(State, a, success, data)) = Written(State)

\* the text streamed so far by an operation whose call has not come back
PartialTexts(P) ==
    {P.run.ops[o].stream : o \in {o \in 1..MaxOps : /\ P.run.ops[o].phase = "calling"
                                                     /\ P.run.ops[o].streaming
                                                     /\ P.run.ops[o].stream # <<>>}}

\* C17 (as claimed): partial stream text is never recorded: no history
\* entry holds the prefix streamed so far by an operation that is still in
\* progress, whatever blur, click or chunk came in between
C17_NoPartialInHistory ==
    \A h \in store.history : h.content \notin PartialTexts(State)

\* what a failed operation must leave alone
Recorded(P) == <<P.store.history, P.store.undoState, P.store.translateCache>>

\* the operation a click started, if its provider call was issued
CallIssued(P0, P) ==
    \E o \in 1..MaxOps : P0.run.ops[o].phase # "calling" /\ P.run.ops[o].phase = "calling"

\* operation o comes back with an empty final content
EmptyFinal(P, o, data) == P.run.ops[o].stream = <<>> /\ data = <<>>

\* C18 (as claimed): a failed operation writes nothing: a click on an empty
\* or blank input issues no provider call and records nothing; a call that
\* rejects, that resolves with success = false or with an empty final
\* content adds no history entry, keeps the undo state and the cache
C18_FailedWritesNothing ==
    /\ \A i \in 1..MaxInst, feature \in Features, llm \in BOOLEAN :
          (Clickable(i) /\ IsBlank(GetInputValue(State, i))
              /\ ~ButtonProcessing(State, i, feature)) =>
             LET P == OnClick(State, i, feature, llm)
             IN P.ok => Recorded(P) = Recorded(State) /\ ~CallIssued(State, P)
    /\ \A o \in 1..MaxOps :
          run.ops[o].phase = "calling" =>
             /\ Recorded(WorkRejected(State, o)) = Recorded(State)
             /\ \A success \in BOOLEAN, data \in {<<>>, FullAnswer(o)} :
                   (~success \/ EmptyFinal(State, o, data)) =>
                      Recorded(IF run.ops[o].feature = "expand"
                               THEN ExpandResolved(State, o, success, data)
                               ELSE TranslateResolved(State, o, success, data))
                         = Recorded(State)

(* ------------------------------ translate cache ------------------------ *)
\* a click on the translate button of widget i starts a translation
TranslateStarts(i) ==
    /\ Clickable(i)
    /\ ~ButtonProcessing(State, i, "translate")
    /\ ~IsBlank(GetInputValue(State, i))

\* C19: a cache hit short-circuits: with the cache enabled and the text to
\* translate equal to a cached source (or translation), translate puts the
\* cached counterpart into the input, issues no provider call and leaves
\* the cache as it is; with the cache disabled the cache is not consulted
\* (the call is issued even when the text is cached) and not written,
\* neither at the click nor when the call comes back
C19_CacheHitShortCircuits ==
    /\ \A i \in 1..MaxInst, llm \in BOOLEAN :
          TranslateStarts(i) =>
             LET text == GetInputValue(State, i)
                 hit == QueryTranslateCache(State, text)
                 P == OnClick(State, i, "translate", llm)
             IN P.ok =>
                   /\ (run.features.useTranslateCache /\ hit.type # "none") =>
                         /\ ~CallIssued(State, P)
                         /\ P.store.translateCache = store.translateCache
                         /\ GetInputValue(P, i) = hit.text
                   /\ ~run.features.useTranslateCache =>
                         /\ CallIssued(State, P)
                         /\ P.store.translateCache = store.translateCache
                         /\ GetInputValue(P, i) = text
    /\ \A o \in 1..MaxOps : \A success \in BOOLEAN, data \in {<<>>, FullAnswer(o)} :
          (/\ run.ops[o].phase = "calling" /\ run.ops[o].feature = "translate"
           /\ ~run.features.useTranslateCache) =>
             TranslateResolved(State, o, success, data).store.translateCache
                = store.translateCache

\* a click on translate with the cache enabled and the input holding a
\* text that an earlier translation cached: the counterpart replaces it
C19_Witness ==
    \E i \in 1..MaxInst :
        LET text == GetInputValue(State, i)
            hit == QueryTranslateCache(State, text)
            P == OnClick(State, i, "translate", TRUE)
        IN /\ TranslateStarts(i) /\ P.ok
           /\ run.features.useTranslateCache
           /\ hit.type # "none" /\ hit.text # text
           /\ GetInputValue(P, i) = hit.text
           /\ ~CallIssued(State, P)

\* C20: the translate cache is written only when a provider-served
\* translation comes back with success, the cache is enabled and the
\* source text is not mixed Chinese/English or mixed-language caching is
\* allowed; no click, chunk, rejection or expand result writes it
C20_CacheWritePolicy ==
    /\ \A o \in 1..MaxOps :
          run.ops[o].phase = "calling" =>
             /\ WorkRejected(State, o).store.translateCache = store.translateCache
             /\ StreamCallback(State, o, ChunkTok(o, 1)).store.translateCache
                   = store.translateCache
             /\ \A success \in BOOLEAN, data \in {<<>>, FullAnswer(o)} :
                   LET P == IF run.ops[o].feature = "expand"
                            THEN ExpandResolved(State, o, success, data)
                            ELSE TranslateResolved(State, o, success, data)
                   IN P.store.translateCache # store.translateCache =>
                         /\ run.ops[o].feature = "translate" /\ success
                         /\ run.features.useTranslateCache
                         /\ \/ ~IsMixedChineseEnglish(run.ops[o].content)
                            \/ run.features.cacheMixedLangTranslation
                         /\ P.store.translateCache
                               = {c \in store.translateCache : c[1] # run.ops[o].content}
                                    \cup {<<run.ops[o].content,
                                            FormatTranslatedText(IF run.ops[o].stream # <<>>
                                                                 THEN run.ops[o].stream ELSE data)>>}
    /\ \A i \in 1..MaxInst, feature \in Features, llm \in BOOLEAN :
          Clickable(i) =>
             LET P == OnClick(State, i, feature, llm)
             IN P.ok => P.store.translateCache = store.translateCache

\* a translation of a mixed-language text comes back with success while the
\* cache is enabled and mixed-language caching is off: the result is
\* applied and recorded, the cache stays as it is
C20_Witness ==
    \E o \in 1..MaxOps :
        LET P == TranslateResolved(State, o, TRUE, FullAnswer(o))
        IN /\ run.ops[o].phase = "calling" /\ run.ops[o].feature = "translate"
           /\ IsMixedChineseEnglish(run.ops[o].content)
           /\ run.features.useTranslateCache /\ ~run.features.cacheMixedLangTranslation
           /\ P.store.history # store.history
           /\ P.store.translateCache = store.translateCache

\* the text a successful translation o ends with
FinalText(P, o, data) ==
    FormatTranslatedText(IF P.run.ops[o].stream # <<>> THEN P.run.ops[o].stream ELSE data)

\* translation o of a text S that is not mixed-language, not cancelled,
\* comes back with success and a translation T, not empty and different
\* from S, while the cache is enabled
ServedTranslation(o, data) ==
    /\ run.ops[o].phase = "calling" /\ run.ops[o].feature = "translate"
    /\ ~run.ops[o].cancelled
    /\ run.features.useTranslateCache
    /\ ~IsMixedChineseEnglish(run.ops[o].content)
    /\ FinalText(State, o, data) # <<>>
    /\ FinalText(State, o, data) # run.ops[o].content

WidgetKey(P, i) == <<WidgetNodeId(P, i), WidgetInputId(P, i)>>
\* the input of widget i holds text t and loses the focus
TypeAndBlur(P, i, t) ==
    LET e == P.widgets[i].inputEl
    IN RunBlurListeners([P EXCEPT !.store.value[e] = t],
                        {l \in P.listeners : l.el = e /\ l.kind = "blur"})
\* widget i shows undo and redo buttons and its input records on blur
HasUndoRedo(i) ==
    /\ Clickable(i) /\ HasHistoryButtons(State, i)
    /\ widgets[i].inputEl # NoEl
    /\ \E l \in listeners : l.el = widgets[i].inputEl /\ l.kind = "blur"

\* C22: undo/redo round trip: after "a" and then "b" are recorded for a
\* key, undo returns "a", redo then returns "b", and one more redo returns
\* nothing to redo; the undo and redo buttons write the returned text into
\* the input
C22_UndoRedoRoundTrip ==
    /\ \A hk \in HistoryKeys : \A a \in UserTexts : \A b \in UserTexts \ {a} :
          LET Pa == AddHistoryAndUpdateUndoState(State, hk[1], hk[2], a, "input")
              Pb == AddHistoryAndUpdateUndoState(Pa, hk[1], hk[2], b, "input")
              r1 == Undo(Pb, hk[1], hk[2])
              r2 == Redo(r1.P, hk[1], hk[2])
              r3 == Redo(r2.P, hk[1], hk[2])
          IN /\ ~r1.isNull /\ r1.content = a
             /\ ~r2.isNull /\ r2.content = b
             /\ r3.isNull /\ r3.P = r2.P
    /\ \A i \in 1..MaxInst : HasUndoRedo(i) =>
          \A a \in UserTexts : \A b \in UserTexts \ {a} :
              LET Pb == TypeAndBlur(TypeAndBlur(State, i, a), i, b)
                  P1 == UndoOnClick(Pb, i)
                  P2 == RedoOnClick(P1, i)
                  P3 == RedoOnClick(P2, i)
              IN /\ GetInputValue(Pb, i) = b
                 /\ GetInputValue(P1, i) = a
                 /\ GetInputValue(P2, i) = b
                 /\ P3 = P2

\* "u" and then another text were recorded for an input on blur, the undo
\* button was clicked and the input shows the older text again
C22_Witness ==
    \E i \in 1..MaxInst :
        LET u == store.undoState[WidgetKey(State, i)]
        IN /\ HasUndoRedo(i)
           /\ Len(u.stack) = 2 /\ u.cursor = 1
           /\ u.stack[1] # u.stack[2]
           /\ GetInputValue(State, i) = u.stack[1]
           /\ GetInputValue(RedoOnClick(State, i), i) = u.stack[2]
           /\ RedoOnClick(RedoOnClick(State, i), i) = RedoOnClick(State, i)

\* the cursor of snapshots u points at one of them (none when there is none)
CursorInBounds(u) ==
    /\ Len(u.stack) <= MaxHistory
    /\ IF u.stack = <<>> THEN u.cursor = 0 ELSE u.cursor \in 1..Len(u.stack)

\* C23: history cursor bounds: after any sequence of records, undos and
\* redos the cursor of every key is within its snapshots; undo at the
\* oldest snapshot and redo at the newest return the nothing signal, move
\* nothing and leave the input's text as it is
C23_CursorBounds ==
    /\ \A hk \in HistoryKeys :
          LET u == store.undoState[hk]
              ru == Undo(State, hk[1], hk[2])
              rr == Redo(State, hk[1], hk[2])
          IN /\ CursorInBounds(u)
             /\ CursorInBounds(ru.P.store.undoState[hk])
             /\ CursorInBounds(rr.P.store.undoState[hk])
             /\ u.cursor <= 1 => ru.isNull /\ ru.P = State
             /\ u.cursor = Len(u.stack) => rr.isNull /\ rr.P = State
    /\ \A i \in 1..MaxInst : Clickable(i) /\ HasHistoryButtons(State, i) =>
          LET u == store.undoState[WidgetKey(State, i)]
          IN /\ u.cursor <= 1 => UndoOnClick(State, i) = State
             /\ u.cursor = Len(u.stack) => RedoOnClick(State, i) = State

\* the cursor of an input with two snapshots is on the oldest one after an
\* undo: one more click on undo changes nothing, the input keeps its text
C23_Witness ==
    \E i \in 1..MaxInst :
        LET u == store.undoState[WidgetKey(State, i)]
        IN /\ Clickable(i) /\ HasHistoryButtons(State, i)
           /\ Len(u.stack) >= 2 /\ u.cursor = 1
           /\ GetInputValue(State, i) = u.stack[1] /\ u.stack[1] # <<>>
           /\ UndoOnClick(State, i) = State
           /\ RedoOnClick(RedoOnClick(State, i), i).store.undoState[WidgetKey(State, i)].cursor
                 <= Len(u.stack)

\* the stored history entries: the recorded entries and, per input, the
\* snapshots in order (the place of the undo cursor is not an entry)
StoredEntries(P) ==
    <<P.store.history, [hk \in HistoryKeys |-> P.store.undoState[hk].stack]>>

\* C24 (as claimed): history is changed only by blur and by successful
\* operations: a scan (with the creation or re-creation of instances it
\* does), a resolved container lookup, a click on undo or redo, cleanup of
\* a node or of everything (what switching the global switch off runs)
\* leave the stored entries as they are
C24_HistoryFrame ==
    /\ \A n \in graphNodes, t \in BOOLEAN :
          LET P == CheckAndSetupNode(State, n, t)
          IN P.ok => StoredEntries(P) = StoredEntries(State)
    /\ \A i \in Allocated(State) :
          widgets[i].lookup = "pending" /\ PositionResolved(State, i).ok =>
              StoredEntries(PositionResolved(State, i)) = StoredEntries(State)
    /\ \A i \in 1..MaxInst : Clickable(i) /\ HasHistoryButtons(State, i) =>
          /\ StoredEntries(UndoOnClick(State, i)) = StoredEntries(State)
          /\ StoredEntries(RedoOnClick(State, i)) = StoredEntries(State)
    /\ \A x \in {Null} \cup {NodeArg(n) : n \in graphNodes}, silent \in BOOLEAN, t \in BOOLEAN :
          StoredEntries(Cleanup(State, x, silent, t)) = StoredEntries(State)

\* C25 (as claimed): blur records and rebases: a blur on a bound input
\* writes the input's text to history and puts the undo cursor on the
\* latest snapshot, so that right after the blur the latest snapshot is
\* the input's text and redo is unavailable; and one blur does this once:
\* a single assistant listener of the element records, under a single key
C25_BlurRecordsOnce ==
    \A e \in Elements :
        LET ls == ListenersOn(State, e, "blur")
            P == RunBlurListeners(State, ls)
        IN /\ Cardinality(ls) <= 1
           /\ \A l \in ls :
                 LET k == BlurKey(State, l)
                 IN k \in HistoryKeys =>
                       LET u == P.store.undoState[k]
                       IN /\ u.stack # <<>> /\ u.stack[Len(u.stack)] = store.value[e]
                          /\ u.cursor = Len(u.stack)
                          /\ ~CanRedo(P, k[1], k[2])
                          /\ HistoryEntry(k[1], k[2], store.value[e], "input")
                                \in P.store.history

\* the instances a scan created: allocated in P and not in P0
CreatedBy(P0, P) == Allocated(P) \ Allocated(P0)

SameNameInputs(n) ==
    {ValidInputs(n)[k] : k \in {k \in DOMAIN ValidInputs(n) :
                                   Len(SameNameWidgets(ValidInputs(n)[k])) > 1}}
\* the live registered instances of input s in P
InstancesOf(P, s) ==
    {i \in Allocated(P) : /\ P.widgets[i].element /\ P.widgets[i].slot = s
                          /\ P.instances[P.widgets[i].key] = i}

\* C27 (as claimed): same-name disambiguation: a scan of a node with two
\* or more valid inputs of one name completes and gives each of them its
\* own instance under its own key, and a later scan of the node resolves
\* each input to the same key as before
C27_SameNameDisambiguation ==
    \A n \in graphNodes, t \in BOOLEAN :
        LET P == CheckAndSetupNode(State, n, t)
            P2 == CheckAndSetupNode(P, n, t)
        IN (enabled /\ ~vueMode /\ SameNameInputs(n) # {} /\ P2.ok) =>
              /\ ~P.thrown /\ ~P2.thrown
              /\ \A s \in SameNameInputs(n) :
                    /\ InstancesOf(P, s) # {}
                    /\ InstancesOf(P2, s) = InstancesOf(P, s)
              /\ \A s1 \in SameNameInputs(n) : \A s2 \in SameNameInputs(n) \ {s1} :
                    InstancesOf(P, s1) \cap InstancesOf(P, s2) = {}

\* C28: no silent overwrite in the registry: createAssistant, the one
\* caller of addInstance, returns the registered instance when the key is
\* taken and registers nothing; and whenever a step leaves another
\* instance under a key than before, the former one was removed first: it
\* was torn down by cleanup in that step
C28_NoSilentOverwrite ==
    /\ [](\A k \in Keys : instances[k] # 0 =>
            \A s \in Slots, e \in Elements \cup {NoEl} :
                LET P == CreateAssistant(State, s, e, k)
                IN P.instances = instances /\ P.nextId = nextId)
    /\ [][\A k \in Keys :
            (instances[k] # 0 /\ instances'[k] # 0 /\ instances'[k] # instances[k]) =>
                /\ widgets[instances[k]].element
                /\ ~widgets'[instances[k]].element]_vars

\* an instance is registered under a key whose earlier instance was torn
\* down: the registry entry changed through a removal
C28_Witness ==
    \E i \in 1..MaxInst, j \in 1..MaxInst :
        /\ i # j /\ Destroyed(i) /\ IsRegistered(j)
        /\ widgets[i].slot = widgets[j].slot
        /\ widgets[j].key = ScanKey(widgets[j].slot)
        /\ CreateAssistant(State, widgets[j].slot, CurrentEl(widgets[j].slot),
                           widgets[j].key) = State

\* C29 (as claimed): no failure is fatal to the host: for every node of
\* the workflow (with widgets, without, with same-name inputs) and every
\* registry state, checkAndSetupNode and cleanup return without an
\* exception, and toggleGlobalFeature returns with the switch as requested:
\* a failure only leaves a toolbar out
C29_NoFatalFailure ==
    /\ \A n \in graphNodes, t \in BOOLEAN : ~CheckAndSetupNode(State, n, t).thrown
    /\ \A x \in CleanupArgs, silent \in BOOLEAN, t \in BOOLEAN :
          ~Cleanup(State, x, silent, t).thrown
    /\ \A auto \in BOOLEAN, t \in BOOLEAN :
          LET P == EnableScan([State EXCEPT !.enabled = TRUE], enabled, auto, t)
          IN P.ok => ~P.thrown /\ P.enabled

\* instance i is registered and its _isMounting flag is set
RegisteredMounting(i) == IsRegistered(i) /\ widgets[i].isMounting

\* input s is the only input of its node the scan examines, its element is
\* in the document and carries no mount marker, and the node has no
\* instance and no lookup under way
FreshSingleInput(s) ==
    /\ SlotNode(s) \in graphNodes /\ enabled
    /\ ScanInputs(SlotNode(s)) = <<s>>
    /\ rendered[s] /\ ~elMounted[CurrentEl(s)]
    /\ \A j \in Allocated(State) :
          SlotNode(widgets[j].slot) = SlotNode(s) =>
              ~IsRegistered(j) /\ widgets[j].lookup # "pending"

\* C30: every mount attempt terminates: with the container lookup
\* resolving, an instance that is registered with _isMounting set does not
\* stay so forever: it ends mounted or is taken out of the registry; and
\* for a node with one text input, container available and switch enabled,
\* the scan followed by the resolved lookup ends with the key registered,
\* _isMounting cleared, the toolbar attached and the mount marker on the
\* element
C30_MountTerminates ==
    /\ \A i \in 1..MaxInst : RegisteredMounting(i) ~> ~RegisteredMounting(i)
    /\ [](\A s \in Slots, t \in BOOLEAN :
            FreshSingleInput(s) =>
                LET P1 == CheckAndSetupNode(State, SlotNode(s), t)
                    i == getInstance(P1, ScanKey(s))
                    P2 == PositionResolved(P1, i)
                IN P1.ok =>
                     /\ hasInstance(P1, ScanKey(s)) /\ P1.widgets[i].isMounting
                     /\ getInstance(P2, ScanKey(s)) = i
                     /\ ~P2.widgets[i].isMounting
                     /\ P2.elMounted[CurrentEl(s)]
                     /\ P2.elKey[CurrentEl(s)] = ScanKey(s)
                     /\ P2.widgets[i].toolbar = ParentOf(CurrentEl(s)))

(* ------------------------------ C31 ------------------------------------ *)
\* the registry holds an instance under the key written on element e, and
\* that instance's input element is e
HasLiveOwner(e) ==
    /\ elKey[e] \in Keys
    /\ hasInstance(State, elKey[e])
    /\ widgets[getInstance(State, elKey[e])].inputEl = e

\* C31: an input element that carries the mount marker has a registered
\* owner: the registry holds an instance under the element's
\* _promptAssistantWidgetKey whose input element is that element.
C31_MarkerImpliesOwner ==
    \A e \in Elements : elMounted[e] => HasLiveOwner(e)

(* ------------------------------ C32 ------------------------------------ *)
\* instance j is mounted on an input that is still in the document
Healthy(j) == Mounted(j) /\ ElInDoc(widgets[j].inputEl)

\* C32: when a scan finds the instance of one input of a node stale and
\* rebuilds it, the instance of another input of the node that is mounted
\* on a live element stays as it was (registry entry, toolbar, mount
\* marker, not torn down), and after the scan both inputs have an instance.
C32_LocalTeardown ==
    \A i \in 1..MaxInst, j \in 1..MaxInst, t \in BOOLEAN :
        (/\ Stale(i) /\ Healthy(j) /\ i # j
         /\ SlotNode(widgets[i].slot) = SlotNode(widgets[j].slot)
         /\ Scannable(widgets[i].slot)) =>
            LET P == CheckAndSetupNode(State, SlotNode(widgets[i].slot), t)
            IN P.ok =>
                 /\ Untouched(P, j)
                 /\ P.widgets[j].element
                 /\ hasInstance(P, ScanKey(widgets[i].slot))
                 /\ hasInstance(P, widgets[j].key)

(* ------------------------------ C33 ------------------------------------ *)
\* the listeners and observers registered for widget i
ListenersOf(P, i) == {l \in P.listeners : l.owner = i}

\* C33: when the resolved lookup of a registered instance takes it out of
\* the registry (failed mount, or abort as a duplicate), none of the
\* blur/input listeners and resize observers registered for it is left on
\* an input element, and the bound flag of the elements it had bound is
\* cleared.
C33_NoListenerOutlivesInstance ==
    \A i \in 1..MaxInst :
        (IsRegistered(i) /\ LookupPending(i)) =>
            LET P == PositionResolved(State, i)
            IN (P.ok /\ P.instances[widgets[i].key] # i) =>
                 /\ ListenersOf(P, i) = {}
                 /\ \A l \in ListenersOf(State, i) : ~P.elBound[l.el]

(* ------------------------------ C34 ------------------------------------ *)
\* operation o is in flight and the instance it was started from has been
\* torn down
Outlived(o) == run.ops[o].phase = "calling" /\ Destroyed(run.ops[o].inst)

\* C34: a stream chunk, the final result or the rejection of an operation
\* whose instance has been destroyed changes neither the text of an input
\* element nor the stored history, undo state and translate cache.
C34_OutlivedOperationHasNoEffect ==
    \A o \in 1..MaxOps :
        Outlived(o) =>
            /\ \A k \in {1, 2} : StreamCallback(State, o, ChunkTok(o, k)).store = store
            /\ WorkRejected(State, o).store = store
            /\ \A success \in BOOLEAN, data \in {<<>>, FullAnswer(o)} :
                  (IF run.ops[o].feature = "expand"
                   THEN ExpandResolved(State, o, success, data)
                   ELSE TranslateResolved(State, o, success, data)).store = store

(* ------------------------------ C35 ------------------------------------ *)
\* C35: while the workflow-switching flag is set, cleanup(nodeId) and
\* cleanup(null), silent or not, leave the stored history, the undo states
\* and the tag caches as they were.
C35_SwitchingCleanupKeepsCaches ==
    switching =>
        \A x \in {Null} \cup {NodeArg(n) : n \in Nodes}, silent \in BOOLEAN, t \in BOOLEAN :
            LET P == Cleanup(State, x, silent, t)
            IN /\ P.store.history = store.history
               /\ P.store.undoState = store.undoState
               /\ P.store.tagCache = store.tagCache

\* a cleanup during a workflow switch has torn every instance down while
\* history entries and cached tags are stored
C35_Witness ==
    /\ switching
    /\ store.history # {} /\ store.tagCache # {}
    /\ Registered(State) = {}
    /\ \E i \in 1..MaxInst : Destroyed(i)

(* ------------------------------ C36 ------------------------------------ *)
\* the enabling toggle fails: a scan of its auto-creation loop throws
ToggleFails(auto, menuThrows) ==
    auto /\ ScanAll([State EXCEPT !.enabled = TRUE], NodeList, menuThrows).thrown

\* C36: when an enabling toggle fails with an exception, FEATURES.enabled
\* ends with the value it had before the toggle was requested, both when
\* toggleGlobalFeature(true, force) is called on the assistant and when the
\* toggle is requested through the onChange handler of
\* PromptAssistant.Features.Enabled.
C36_ToggleRollback ==
    \A auto \in BOOLEAN, t \in BOOLEAN :
        ToggleFails(auto, t) =>
            /\ EnableScan([State EXCEPT !.enabled = TRUE], enabled, auto, t).enabled = enabled
            /\ ~enabled =>
                  EnableScan([State EXCEPT !.enabled = TRUE], TRUE, auto, t).enabled = enabled

(* ------------------------------ C37 ------------------------------------ *)
\* C37: an enable followed by a disable puts back the handler the canvas
\* held immediately before the enable (null if it held none); an enable
\* that finds the assistant's own handler installed does not record it as
\* the original; and the assistant's own handler is not installed while
\* the switch is disabled.
C37_SelectionHandlerRestored ==
    /\ selHandler.onSelectionChange # Own =>
          RestoreSelectionHandler(InstallSelectionHandler(selHandler)).onSelectionChange
              = selHandler.onSelectionChange
    /\ selHandler.onSelectionChange = Own =>
          InstallSelectionHandler(selHandler).original = selHandler.original
    /\ selHandler.original # Own
    /\ ~enabled => selHandler.onSelectionChange # Own

(* ------------------------------ C38 ------------------------------------ *)
\* input s of a node the handler can scan has no instance and nothing but
\* the handler's own guards stands between it and a mount attempt: the
\* scan does not throw and the element it examines carries no mount marker
NeedsInstance(s) ==
    /\ ~ScanThrows(SlotNode(s))
    /\ ~hasInstance(State, ScanKey(s))
    /\ ~ScanSeesMarker(s)

\* C38: with the switch enabled and the assistant's handler installed, a
\* selection of a node one of whose inputs has no instance registers an
\* instance for that input and starts its container lookup; with the
\* switch disabled the handler changes nothing.
C38_SelectionTriggersCreation ==
    \A n \in graphNodes, t \in BOOLEAN :
        LET P == OnSelectionChange(State, n, t)
        IN /\ ~enabled => P = State
           /\ (enabled /\ selHandler.onSelectionChange = Own /\ P.ok) =>
                 \A k \in DOMAIN ScanInputs(n) :
                     NeedsInstance(ScanInputs(n)[k]) =>
                         /\ hasInstance(P, ScanKey(ScanInputs(n)[k]))
                         /\ P.widgets[getInstance(P, ScanKey(ScanInputs(n)[k]))].lookup
                                = "pending"

\* the value of the input the grid of P writes to
GridInput(P) == GetInputValue(P, P.run.grid.inst)
\* the values of the enabled items of the grid of P, in its order, joined
EnabledJoined(P) == JoinItems(ItemValues(P.run.grid.items, FALSE))
\* a grid over an input element exists
GridOpen == run.grid.kind # "none" /\ widgets[run.grid.inst].inputEl # NoEl

\* C39: in a text grid, after a click on an item and after a drag of an item
\* the value of the input is the values of the enabled items in the grid's
\* order joined by ", ", and a second click on the same item gives the input
\* the value it had before the first click.
C39_GridWritesEnabledItems ==
    GridOpen =>
        /\ \A k \in DOMAIN run.grid.items :
               LET P1 == GridItemClick(State, k)
                   P2 == GridItemClick(P1, k)
               IN /\ GridInput(P1) = EnabledJoined(P1)
                  /\ GridInput(P2) = EnabledJoined(P2)
                  /\ GridInput(P2) = GridInput(State)
        /\ \A a \in Draggable(State) : \A b \in Draggable(State) \ {a} :
               LET P1 == GridSortEnd(State, a, b)
               IN GridInput(P1) = EnabledJoined(P1)

\* item it of a grid is among the items of P and disabled there
StillDisabled(P, it) ==
    \E j \in DOMAIN P.run.grid.items :
        P.run.grid.items[j].value = it.value /\ P.run.grid.items[j].disabled
\* C40: when a change of the input has armed the debounce of an inline grid,
\* the render that follows keeps every item that was disabled, and disabled;
\* and once the grid is destroyed no event on the input arms a render.
C40_RenderKeepsDisabledItems ==
    /\ run.grid.kind = "inline" /\ run.grid.timer =>
           \A k \in DOMAIN run.grid.items :
               run.grid.items[k].disabled => StillDisabled(GridRender(State), run.grid.items[k])
    /\ run.grid.kind = "inline" =>
           LET P1 == GridDestroy(State)
           IN /\ ~P1.run.grid.timer
              /\ \A e \in Elements : ~GridInputEvent(P1, e).run.grid.timer
=============================================================================
